---- MODULE Spec2Model ----
(***************************************************************************)
(* MonoAgent: the monorepo splitter of split_repo_agent.py.                *)
(*                                                                         *)
(* Several state machines share this module, among them:                   *)
(*   SpecSanitize  RepoSplitter._sanitize_repo_name on bounded strings     *)
(*   SpecCycle     MonorepoAnalyzer._detect_circular_dependencies          *)
(*   SpecCreate    the four provider adapters called directly              *)
(*   Spec          one run of RepoSplitter.split_repositories              *)
(*   SpecGuard     _rate_limit_guard ahead of the creation requests        *)
(*   SpecPublish   the git commands that publish one extracted unit        *)
(*   SpecBreaker   error_handling.CircuitBreaker                           *)
(*   SpecRetry     ErrorHandler.retry_with_backoff                         *)
(*   SpecNaming    repository names and scratch directories of the units   *)
(* Strings whose characters matter (repository names, clone URLs) are      *)
(* sequences of one-character strings; a fixed piece of a URL is one       *)
(* token.  None and the empty string are both the empty sequence, as both  *)
(* are falsy in the `if repo_url:` tests of the source.                    *)
(***************************************************************************)
EXTENDS Integers, Sequences, FiniteSets, TLC

\* ------------------------------------------------------------------ bounds
MaxLen ==
  3

MaxProjects ==
  2

MaxComponents ==
  1

MaxNodes ==
  3

MaxEdges ==
  3

MaxCreates ==
  2

\* --------------------------------------------------------- string helpers
Null ==
  <<>>

Range(s) ==
  {s[i] : i \in 1..Len(s)}

SeqsUpTo(S, n) ==
  UNION {[1..k -> S] : k \in 0..n}

Injective(s) ==
  \A i, j \in 1..Len(s) : s[i] = s[j] => i = j

Perms(S) ==
  {s \in [1..Cardinality(S) -> S] : Range(s) = S}

EndsWith(s, suffix) ==
  /\ Len(suffix) <= Len(s)
  /\ SubSeq(s, Len(s) - Len(suffix) + 1, Len(s)) = suffix

\* ---------------------------------------------- _sanitize_repo_name pieces
Whitespace ==
  {" "}

LowerLetters ==
  {"a", "b", "c", "d", "e", "f", "g", "h", "i", "j", "k", "l", "m",
   "n", "o", "p", "q", "r", "s", "t", "u", "v", "w", "x", "y", "z"}

Digits ==
  {"0", "1", "2", "3", "4", "5", "6", "7", "8", "9"}

\* the class [a-z0-9._-] of the first re.sub
AllowedChars ==
  LowerLetters \cup Digits \cup {".", "_", "-"}

\* the argument of the final str.strip
TrimChars ==
  {"-", ".", "_"}

\* str.lower on one character
LowerChar(c) ==
  CASE c = "A" -> "a"
    [] c = "B" -> "b"
    [] c = "M" -> "m"
    [] c = "S" -> "s"
    [] OTHER -> c

RECURSIVE LStrip(_, _)
LStrip(s, set) ==
  IF s # <<>> /\ Head(s) \in set THEN LStrip(Tail(s), set) ELSE s

RECURSIVE RStrip(_, _)
RStrip(s, set) ==
  IF s # <<>> /\ s[Len(s)] \in set THEN RStrip(SubSeq(s, 1, Len(s) - 1), set) ELSE s

\* str.strip(chars): both ends
Strip(s, set) ==
  RStrip(LStrip(s, set), set)

Lower(s) ==
  [i \in 1..Len(s) |-> LowerChar(s[i])]

\* re.sub(r"[^a-z0-9._-]", "-", name)
ReplaceDisallowed(s) ==
  [i \in 1..Len(s) |-> IF s[i] \in AllowedChars THEN s[i] ELSE "-"]

\* re.sub(r"-+", "-", name)
RECURSIVE CollapseHyphens(_)
CollapseHyphens(s) ==
  IF Len(s) < 2 THEN s
  ELSE IF s[1] = "-" /\ s[2] = "-" THEN CollapseHyphens(Tail(s))
  ELSE <<s[1]>> \o CollapseHyphens(Tail(s))

DefaultName ==
  <<"r", "e", "p", "o">>

\* a plausible slip: the trim of '-', '.', '_' done before the replacement
sanitize_trim_first(raw_name) ==
  LET name == CollapseHyphens(ReplaceDisallowed(Strip(Lower(Strip(raw_name, Whitespace)), TrimChars)))
  IN IF name = <<>> THEN DefaultName ELSE name

sanitize_repo_name(raw_name) ==
  LET stripped  == Lower(Strip(raw_name, Whitespace))
      replaced  == ReplaceDisallowed(stripped)
      collapsed == CollapseHyphens(replaced)
      name      == Strip(collapsed, TrimChars)
  IN IF name = <<>> THEN DefaultName ELSE name

\* ------------------------------------------------------ provider adapters
Providers ==
  {"github", "gitlab", "bitbucket", "azure"}

\* range(1, 4) of _create_repo_github
GithubAttempts ==
  3

\* min(2 ** attempt, 8)
BackoffCap ==
  8

\* abuse_retry_after_default of RepoSplitterConfig
AbuseRetryAfterDefault ==
  60

Pow2(n) ==
  IF n = 0 THEN 1 ELSE IF n = 1 THEN 2 ELSE IF n = 2 THEN 4 ELSE 8

Min(a, b) ==
  IF a < b THEN a ELSE b

\* what one adapter call hands back to the model: the returned clone URL
\* (Null for None), whether the name was appended to created_repos,
\* whether the remote now holds a new repository, the remote calls and the
\* sleeps made
Result(url, created, remote_created, calls, waits) ==
  [url |-> url, created |-> created, remote_created |-> remote_created,
   calls |-> calls, waits |-> waits]

\* repo.clone_url / existing_repo.clone_url as GitHub reports it
GithubCloneUrl(cfg, name) ==
  <<"https://github.com/", cfg.org, "/">> \o name \o <<".git">>

\* f"{base}/{self.config.org}/{data['path']}.git"
GitlabSynthUrl(cfg, name) ==
  <<cfg.gitlab_host, "/", cfg.org, "/">> \o name \o <<".git">>

\* ssh_url_to_repo of a 201 answer (tests/test_providers.py)
GitlabSshUrl(cfg, name) ==
  <<"git@gitlab.com:", cfg.org, "/">> \o name \o <<".git">>

BitbucketUser(cfg) ==
  IF cfg.provider_username # "" THEN cfg.provider_username ELSE cfg.org

\* f"git@bitbucket.org:{user}/{name}.git"
BitbucketSynthUrl(cfg, name) ==
  <<"git@bitbucket.org:", BitbucketUser(cfg), "/">> \o name \o <<".git">>

BitbucketHttpsUrl(cfg, name) ==
  <<"https://bitbucket.org/", BitbucketUser(cfg), "/">> \o name \o <<".git">>

\* f"https://dev.azure.com/{org}/{project}/_git/{name}"
AzureSynthUrl(cfg, name) ==
  <<"https://dev.azure.com/", cfg.org, "/", cfg.azure_project, "/_git/">> \o name

AzureSshUrl(cfg, name) ==
  <<"git@ssh.dev.azure.com:v3/", cfg.org, "/", cfg.azure_project, "/">> \o name

\* ---- GitHub.  script[attempt] is what the remote does on that attempt:
\*   exists        get_repo returns the repository
\*   org_created   get_repo raises, org.create_repo succeeds
\*   user_created  get_repo and the organization path raise, user.create_repo succeeds
\*   api_error     all three raise GithubException (not 403)
\*   throttled     all three raise GithubException, the last one 403 / rate limit
\* what a GithubException can stand for; every one of them is caught by
\* the same handler and followed by another attempt:
\*   unauthorized  401, bad credentials
\*   forbidden     403, the token lacks the right
\*   throttled     rate limit or abuse detection
\*   api_error     any other status
GithubRetryable ==
  {"api_error", "throttled", "unauthorized", "forbidden"}

GithubOutcomes(exists) ==
  GithubRetryable \cup (IF exists THEN {"exists"} ELSE {"org_created", "user_created"})

\* the remote's answers to the attempts of one call; the condition that
\* fails an attempt is the same for the failed attempts of one call
GithubScripts(exists) ==
  {s \in SeqsUpTo(GithubOutcomes(exists), GithubAttempts) :
     /\ Len(s) >= 1
     /\ \A i \in 1..(Len(s) - 1) : s[i] \in GithubRetryable
     /\ \A i, j \in 1..Len(s) :
          (s[i] \in GithubRetryable /\ s[j] \in GithubRetryable) => s[i] = s[j]
     /\ (Len(s) < GithubAttempts => s[Len(s)] \notin GithubRetryable)}

RECURSIVE GithubAttempt(_, _, _, _, _, _)
GithubAttempt(cfg, name, script, attempt, calls, waits) ==
  IF attempt > GithubAttempts
  THEN Result(Null, FALSE, FALSE, calls, waits)
  ELSE
    LET o  == script[attempt]
        c1 == calls \o <<"rate_limit_guard", "get_repo">>
        c2 == c1 \o <<"rate_limit_guard", "org.create_repo">>
        c3 == c2 \o <<"rate_limit_guard", "user.create_repo">>
    IN CASE o = "exists"       -> Result(GithubCloneUrl(cfg, name), FALSE, FALSE, c1, waits)
         [] o = "org_created"  -> Result(GithubCloneUrl(cfg, name), TRUE, TRUE, c2, waits)
         [] o = "user_created" -> Result(GithubCloneUrl(cfg, name), TRUE, TRUE, c3, waits)
         [] o \in {"api_error", "unauthorized"} ->
              GithubAttempt(cfg, name, script, attempt + 1, c3,
                            Append(waits, Min(Pow2(attempt), BackoffCap)))
         [] o \in {"throttled", "forbidden"} ->
              GithubAttempt(cfg, name, script, attempt + 1, c3,
                            Append(waits, AbuseRetryAfterDefault))

create_repo_github(cfg, repo_name, script) ==
  LET name == sanitize_repo_name(repo_name)
  IN IF cfg.dry_run
     THEN Result(GithubCloneUrl(cfg, name), FALSE, FALSE, <<>>, <<>>)
     ELSE GithubAttempt(cfg, name, script, 1, <<>>, <<>>)

\* ---- GitLab, Bitbucket, Azure: one POST, answered by the remote with
\*   created_ssh    200/201, the body carries the ssh URL (Azure: sshUrl, or
\*                  remoteUrl as a list of links with an ssh entry)
\*   created_https  200/201, the body carries the https URL only
\*   created_string 201, Azure's remoteUrl is a string, the body of
\*                  tests/test_providers.py test_azure_success
\*   exists         409 (Bitbucket: 400 "already exists")
\*   unauthorized   401
\*   forbidden      403
\*   server_error   any other status
\*   exception      requests.post raises
HttpOutcomes(provider, exists) ==
  {"unauthorized", "forbidden", "server_error", "exception"} \cup
    (IF exists THEN {"exists"}
     ELSE IF provider = "azure" THEN {"created_ssh", "created_string"}
     ELSE {"created_ssh", "created_https"})

HttpCalls ==
  <<"rate_limit_guard", "requests.post">>

\* a plausible slip: the dry-run branch left out of one adapter
create_repo_gitlab_no_dry(cfg, repo_name, o) ==
  LET name == sanitize_repo_name(repo_name)
  IN CASE o = "created_ssh" ->
            Result(GitlabSshUrl(cfg, name), TRUE, TRUE, HttpCalls, <<>>)
       [] o = "created_https" ->
            Result(GitlabSynthUrl(cfg, name), TRUE, TRUE, HttpCalls, <<>>)
       [] o = "exists" -> Result(GitlabSynthUrl(cfg, name), FALSE, FALSE, HttpCalls, <<>>)
       [] OTHER -> Result(Null, FALSE, FALSE, HttpCalls, <<>>)

create_repo_gitlab(cfg, repo_name, o) ==
  LET name == sanitize_repo_name(repo_name)
  IN IF cfg.dry_run
     THEN Result(GitlabSynthUrl(cfg, name), FALSE, FALSE, <<>>, <<>>)
     ELSE CASE o = "created_ssh" ->
                 Result(GitlabSshUrl(cfg, name), TRUE, TRUE, HttpCalls, <<>>)
            [] o = "created_https" ->
                 Result(GitlabSynthUrl(cfg, name), TRUE, TRUE, HttpCalls, <<>>)
            [] o = "exists" -> Result(GitlabSynthUrl(cfg, name), FALSE, FALSE, HttpCalls, <<>>)
            [] OTHER -> Result(Null, FALSE, FALSE, HttpCalls, <<>>)

create_repo_bitbucket(cfg, repo_name, o) ==
  LET name == sanitize_repo_name(repo_name)
  IN IF cfg.dry_run
     THEN Result(BitbucketSynthUrl(cfg, name), FALSE, FALSE, <<>>, <<>>)
     ELSE CASE o = "created_ssh" ->
                 Result(BitbucketSynthUrl(cfg, name), TRUE, TRUE, HttpCalls, <<>>)
            [] o = "created_https" ->
                 Result(BitbucketHttpsUrl(cfg, name), TRUE, TRUE, HttpCalls, <<>>)
            [] o = "exists" -> Result(BitbucketSynthUrl(cfg, name), FALSE, FALSE, HttpCalls, <<>>)
            [] OTHER -> Result(Null, FALSE, FALSE, HttpCalls, <<>>)

\* the comprehension over info.get('remoteUrl', []) raises on a string
\* body, the broad except turns that into None after the remote created
\* the repository
create_repo_azure(cfg, repo_name, o) ==
  LET name == sanitize_repo_name(repo_name)
  IN IF cfg.azure_project = ""
     THEN Result(Null, FALSE, FALSE, <<>>, <<>>)
     ELSE IF cfg.dry_run
     THEN Result(AzureSynthUrl(cfg, name), FALSE, FALSE, <<>>, <<>>)
     ELSE CASE o = "created_ssh" ->
                 Result(AzureSshUrl(cfg, name), TRUE, TRUE, HttpCalls, <<>>)
            [] o = "created_string" -> Result(Null, FALSE, TRUE, HttpCalls, <<>>)
            [] o = "exists" -> Result(AzureSynthUrl(cfg, name), FALSE, FALSE, HttpCalls, <<>>)
            [] OTHER -> Result(Null, FALSE, FALSE, HttpCalls, <<>>)

\* env is [script, http]: the remote's behaviour during this call
create_repo_provider_agnostic(cfg, repo_name, env) ==
  CASE cfg.provider = "github"    -> create_repo_github(cfg, repo_name, env.script)
    [] cfg.provider = "gitlab"    -> create_repo_gitlab(cfg, repo_name, env.http)
    [] cfg.provider = "bitbucket" -> create_repo_bitbucket(cfg, repo_name, env.http)
    [] cfg.provider = "azure"     -> create_repo_azure(cfg, repo_name, env.http)
    [] OTHER -> Result(Null, FALSE, FALSE, <<>>, <<>>)

\* the remote's behaviours open to one call, given whether the name exists
CreateEnvs(cfg, exists) ==
  IF cfg.provider = "github"
  THEN {[script |-> s, http |-> "exception"] : s \in GithubScripts(exists)}
  ELSE {[script |-> <<"api_error">>, http |-> o] : o \in HttpOutcomes(cfg.provider, exists)}

\* ------------------------------------------------------------------ state
VARIABLES
  cli,            \* the RepoSplitterConfig handed to RepoSplitter(config)
  inputs,         \* environment variables, repository content, manual lists
  config,         \* self.config
  pc,             \* position inside split_repositories
  idx,            \* index of the unit the loops are at
  repo_url,       \* repo_url of the current loop iteration
  status,         \* per unit: Pending, RepoCreated, Extracted, Published, Failed
  ops,            \* the run's operations in order; live = it touched remote or disk
  calls,          \* remote calls of the last adapter call made directly
  created_repos,  \* self.created_repos
  remote,         \* names of the repositories the provider holds
  report,         \* monorepo_analysis.json has been written
  gate,           \* outcome of the critical-conflict test of analyze_monorepo
  error,          \* the exception that ended the run, "" for none
  hist,           \* results of the adapter calls made so far
  raw_name,       \* argument of _sanitize_repo_name
  sanitized,      \* its result
  resanitized,    \* the result of applying it to its own result
  san_step,       \* how many of the two applications were made
  projects,       \* MonorepoAnalyzer.projects, in dict order
  dependencies,   \* ProjectInfo.dependencies per project
  set_order,      \* iteration order of the sets graph[node]
  conflicts,      \* MonorepoAnalyzer.conflicts
  cyc_step,       \* whether _detect_circular_dependencies has run
  dependency_details, \* MonorepoAnalyzer.dependency_details per project
  ran,            \* the other conflict detectors that have run, in order
  conflicts_again, \* the conflicts of a second run over the same records
  all_files,      \* the file list of _get_all_files, in scan order
  detected,       \* MonorepoAnalyzer.projects as ProjectInfo records, dict order
  common_components, \* MonorepoAnalyzer.common_components, dict order
  det_step,       \* 0 nothing detected, 1 projects, 2 projects and components
  original,       \* the package.json dict handed to _transform_package_json
  args,           \* its keyword arguments repo_name, repo_url, is_library
  migrated,       \* the dict it returned
  mig_step,       \* whether it has been called
  clock,          \* wall-clock seconds since the run started
  guarded,        \* the remote traffic of the last create attempt, timed
  guard_steps,    \* create attempts made so far
  pub_kind,       \* the kind of unit being published
  target_branch,  \* commits of the default branch of the new remote repository
  local_branch,   \* commits of the extracted default branch in the scratch clone
  git_log,        \* the git commands run after the extraction, in order
  pub_done,       \* whether the publish steps have run
  breaker_cfg,    \* failure_threshold and timeout of a CircuitBreaker
  breaker,        \* its state, failure_count and last_failure_time
  cb_now,         \* time.time()
  last_call,      \* what the last CircuitBreaker.call did
  retry_cfg,      \* the arguments of retry_with_backoff
  retry_script,   \* what the wrapped function does on each invocation
  retry_out,      \* how the last call of the wrapper ended
  error_stats,    \* ErrorHandler.error_stats: total_errors per operation
  naming_in,      \* the mode and the units of a run, in processing order
  naming_out      \* the repository name and scratch directory of each unit

runVars ==
  <<cli, inputs, pc, idx, repo_url, status, ops, report, gate, error>>

sharedVars ==
  <<config, created_repos, remote>>

createVars ==
  <<hist, calls>>

sanVars ==
  <<raw_name, sanitized, resanitized, san_step>>

cycVars ==
  <<projects, dependencies, set_order, conflicts, cyc_step>>

depVars ==
  <<dependency_details, ran, conflicts_again>>

detVars ==
  <<all_files, detected, common_components, det_step>>

migVars ==
  <<original, args, migrated, mig_step>>

guardVars ==
  <<clock, guarded, guard_steps>>

pubVars ==
  <<pub_kind, target_branch, local_branch, git_log, pub_done>>

cbVars ==
  <<breaker_cfg, breaker, cb_now, last_call>>

retryVars ==
  <<retry_cfg, retry_script, retry_out, error_stats>>

nameVars ==
  <<naming_in, naming_out>>

lateVars ==
  <<guardVars, pubVars, cbVars, retryVars, nameVars>>

auxVars ==
  <<depVars, detVars, migVars, lateVars>>

vars ==
  <<cli, inputs, config, pc, idx, repo_url, status, ops, calls, created_repos,
    remote, report, gate, error, hist, raw_name, sanitized, resanitized, san_step,
    projects, dependencies, set_order, conflicts, cyc_step, auxVars>>

\* RepoSplitterConfig defaults (dataclass, lines 74-102)
DefaultConfig ==
  [dry_run |-> FALSE, analyze_only |-> FALSE, force |-> FALSE, mode |-> "auto",
   provider |-> "github", org |-> "acme", provider_username |-> "",
   azure_project |-> "", gitlab_host |-> "https://gitlab.com"]

NoError ==
  [kind |-> "", count |-> 0]

\* the machines a specification does not run stay at these values
IdleRun ==
  /\ cli = DefaultConfig
  /\ inputs = <<>>
  /\ pc = "idle"
  /\ idx = 0
  /\ repo_url = Null
  /\ status = <<>>
  /\ ops = <<>>
  /\ report = FALSE
  /\ gate = "none"
  /\ error = NoError

IdleShared ==
  /\ config = DefaultConfig
  /\ created_repos = <<>>
  /\ remote = {}

IdleCreate ==
  /\ hist = <<>>
  /\ calls = <<>>

IdleSan ==
  /\ raw_name = <<>>
  /\ sanitized = <<>>
  /\ resanitized = <<>>
  /\ san_step = 0

IdleCycle ==
  /\ projects = <<>>
  /\ dependencies = <<>>
  /\ set_order = <<>>
  /\ conflicts = <<>>
  /\ cyc_step = 0

IdleDeps ==
  /\ dependency_details = <<>>
  /\ ran = <<>>
  /\ conflicts_again = <<>>

IdleDetect ==
  /\ all_files = <<>>
  /\ detected = <<>>
  /\ common_components = <<>>
  /\ det_step = 0

IdleMigrate ==
  /\ original = <<>>
  /\ args = <<>>
  /\ migrated = <<>>
  /\ mig_step = 0

IdleGuard ==
  /\ clock = 0
  /\ guarded = <<>>
  /\ guard_steps = 0

IdlePublish ==
  /\ pub_kind = ""
  /\ target_branch = <<>>
  /\ local_branch = <<>>
  /\ git_log = <<>>
  /\ pub_done = FALSE

IdleBreaker ==
  /\ breaker_cfg = <<>>
  /\ breaker = <<>>
  /\ cb_now = 0
  /\ last_call = <<>>

IdleRetry ==
  /\ retry_cfg = <<>>
  /\ retry_script = <<>>
  /\ retry_out = <<>>
  /\ error_stats = <<>>

IdleNaming ==
  /\ naming_in = <<>>
  /\ naming_out = <<>>

IdleLate ==
  IdleGuard /\ IdlePublish /\ IdleBreaker /\ IdleRetry /\ IdleNaming

IdleAux ==
  IdleDeps /\ IdleDetect /\ IdleMigrate /\ IdleLate

\* ------------------------------------------- machine: _sanitize_repo_name
SanChars ==
  {"a", "B", "7", " ", "-", ".", "_", "!"}

InitSanitize ==
  /\ raw_name \in SeqsUpTo(SanChars, MaxLen)
  /\ sanitized = <<>>
  /\ resanitized = <<>>
  /\ san_step = 0
  /\ IdleRun /\ IdleShared /\ IdleCreate /\ IdleCycle /\ IdleAux

Sanitize ==
  /\ san_step = 0
  /\ sanitized' = sanitize_repo_name(raw_name)
  /\ san_step' = 1
  /\ UNCHANGED <<auxVars, raw_name, resanitized, runVars, sharedVars, createVars, cycVars>>

SanitizeAgain ==
  /\ san_step = 1
  /\ resanitized' = sanitize_repo_name(sanitized)
  /\ san_step' = 2
  /\ UNCHANGED <<auxVars, raw_name, sanitized, runVars, sharedVars, createVars, cycVars>>

NextSanitize ==
  \/ Sanitize
  \/ SanitizeAgain

SpecSanitize ==
  InitSanitize /\ [][NextSanitize]_vars

\* ------------------------------------- machine: adapters called directly
RawNames ==
  {<<"M", "y", " ", "S", "!", "!">>, <<"a">>, <<"-", ".">>}

CreateConfigs ==
  {[DefaultConfig EXCEPT !.dry_run = d, !.provider = p,
                         !.provider_username = u, !.azure_project = z] :
     d \in BOOLEAN, p \in Providers \cup {"svn"}, u \in {"", "bob"}, z \in {"", "proj"}}

InitCreate ==
  /\ config \in CreateConfigs
  /\ calls = <<>>
  /\ created_repos = <<>>
  /\ remote = {}
  /\ hist = <<>>
  /\ IdleRun /\ IdleSan /\ IdleCycle /\ IdleAux

\* the remote's last answer during one adapter call, "none" without a call
Answer(cfg, env, r) ==
  IF r.calls = <<>> THEN "none"
  ELSE IF cfg.provider = "github" THEN env.script[Len(env.script)]
  ELSE env.http

\* the remote's answer to the first create attempt of the call
FirstAnswer(cfg, env, r) ==
  IF r.calls = <<>> THEN "none"
  ELSE IF cfg.provider = "github" THEN env.script[1]
  ELSE env.http

\* how often the call got as far as asking the remote to create or look up
\* the repository: the get_repo and requests.post entries of its calls
CreateAttempts(r) ==
  Len(SelectSeq(r.calls, LAMBDA c : c \in {"get_repo", "requests.post"}))

CreatedAnswers ==
  {"org_created", "user_created", "created_ssh", "created_https", "created_string"}

CreateCall ==
  /\ Len(hist) < MaxCreates
  /\ \E raw \in RawNames :
       LET name == sanitize_repo_name(raw)
       IN \E env \in CreateEnvs(config, name \in remote) :
            LET r == create_repo_provider_agnostic(config, raw, env)
            IN /\ hist' = Append(hist, [raw |-> raw, name |-> name, url |-> r.url,
                                        answer |-> Answer(config, env, r),
                                        first  |-> FirstAnswer(config, env, r),
                                        posts  |-> CreateAttempts(r),
                                        waits  |-> r.waits])
               /\ calls' = r.calls
               /\ created_repos' = IF r.created THEN Append(created_repos, name)
                                   ELSE created_repos
               /\ remote' = IF r.remote_created THEN remote \cup {name} ELSE remote
  /\ UNCHANGED <<auxVars, config, runVars, sanVars, cycVars>>

NextCreate ==
  CreateCall

SpecCreate ==
  InitCreate /\ [][NextCreate]_vars

\* ------------------------------- machine: _detect_circular_dependencies
NodeNames ==
  <<"A", "B", "C", "D", "E", "F">>

ProjectNames ==
  {NodeNames[i] : i \in 1..MaxNodes}

\* a dependency name that is no project of the monorepo
External ==
  "react"

\* graph[project_name].add(dep) for the deps that are projects (1005-1009)
BuildGraph(projs, deps) ==
  [p \in Range(projs) |-> {d \in deps[p] : d \in Range(projs)}]

\* `for neighbor in graph[node]`: the set's iteration order
Neighbors(graph, order, node) ==
  SelectSeq(order, LAMBDA n : n \in graph[node])

\* a plausible slip: any visited neighbour taken for a back edge
IsBackEdgeAnyVisited(neighbor, st) ==
  neighbor \in st.visited

\* `elif neighbor in rec_stack`
IsBackEdge(neighbor, st) ==
  neighbor \in st.rec_stack

\* has_cycle (1015-1027); st is the shared [visited, rec_stack], which a
\* True result leaves as it is (no rec_stack.remove on that path)
RECURSIVE has_cycle(_, _, _, _)
RECURSIVE has_cycle_loop(_, _, _, _, _)
has_cycle(graph, order, node, st) ==
  has_cycle_loop(graph, order, node, Neighbors(graph, order, node),
                 [visited |-> st.visited \cup {node},
                  rec_stack |-> st.rec_stack \cup {node}])

has_cycle_loop(graph, order, node, nbrs, st) ==
  IF nbrs = <<>>
  THEN [found |-> FALSE, visited |-> st.visited, rec_stack |-> st.rec_stack \ {node}]
  ELSE LET neighbor == Head(nbrs)
       IN IF neighbor \notin st.visited
          THEN LET r == has_cycle(graph, order, neighbor, st)
               IN IF r.found THEN r
                  ELSE has_cycle_loop(graph, order, node, Tail(nbrs),
                                      [visited |-> r.visited, rec_stack |-> r.rec_stack])
          ELSE IF IsBackEdge(neighbor, st)
          THEN [found |-> TRUE, visited |-> st.visited, rec_stack |-> st.rec_stack]
          ELSE has_cycle_loop(graph, order, node, Tail(nbrs), st)

IndexOf(path, node) ==
  CHOOSE i \in 1..Len(path) : path[i] = node /\ \A j \in 1..(i - 1) : path[j] # node

\* _find_cycle.dfs (1055-1072); st is [visited, path]
RECURSIVE find_dfs(_, _, _, _)
RECURSIVE find_dfs_loop(_, _, _, _)
find_dfs(graph, order, node, st) ==
  IF node \in Range(st.path)
  THEN [result |-> Append(SubSeq(st.path, IndexOf(st.path, node), Len(st.path)), node),
        visited |-> st.visited, path |-> st.path]
  ELSE IF node \in st.visited
  THEN [result |-> <<>>, visited |-> st.visited, path |-> st.path]
  ELSE find_dfs_loop(graph, order, Neighbors(graph, order, node),
                     [visited |-> st.visited \cup {node}, path |-> Append(st.path, node)])

find_dfs_loop(graph, order, nbrs, st) ==
  IF nbrs = <<>>
  THEN [result |-> <<>>, visited |-> st.visited,
        path |-> SubSeq(st.path, 1, Len(st.path) - 1)]
  ELSE LET r == find_dfs(graph, order, Head(nbrs), st)
       IN IF r.result # <<>> THEN r
          ELSE find_dfs_loop(graph, order, Tail(nbrs),
                             [visited |-> r.visited, path |-> r.path])

\* _find_cycle (1050-1074): dfs(start_node) or []
find_cycle(graph, order, start_node) ==
  find_dfs(graph, order, start_node, [visited |-> {}, path |-> <<>>]).result

CircularConflict(cycle) ==
  [conflict_type |-> "circular_dependency", source_project |-> "circular",
   target_project |-> cycle, severity |-> "critical"]

\* the loop over self.projects (1030-1048); acc is [st, out]
RECURSIVE circular_roots(_, _, _, _)
circular_roots(graph, order, roots, acc) ==
  IF roots = <<>> THEN acc.out
  ELSE LET project_name == Head(roots)
       IN IF project_name \in acc.st.visited
          THEN circular_roots(graph, order, Tail(roots), acc)
          ELSE LET r  == has_cycle(graph, order, project_name, acc.st)
                   st == [visited |-> r.visited, rec_stack |-> r.rec_stack]
               IN IF r.found
                  THEN circular_roots(graph, order, Tail(roots),
                         [st |-> st,
                          out |-> Append(acc.out,
                                    CircularConflict(find_cycle(graph, order, project_name)))])
                  ELSE circular_roots(graph, order, Tail(roots), [st |-> st, out |-> acc.out])

\* _detect_circular_dependencies (1002-1048): the conflicts it appends
detect_circular_dependencies(projs, deps, order) ==
  circular_roots(BuildGraph(projs, deps), order, projs,
                 [st |-> [visited |-> {}, rec_stack |-> {}], out |-> <<>>])

DepEdges ==
  ProjectNames \X (ProjectNames \cup {External})

DepsOf(edges) ==
  [p \in ProjectNames |-> {e[2] : e \in {x \in edges : x[1] = p}}]

InitCycle ==
  /\ projects \in Perms(ProjectNames)
  /\ set_order \in Perms(ProjectNames)
  /\ \E edges \in SUBSET DepEdges :
       /\ Cardinality(edges) <= MaxEdges
       /\ dependencies = DepsOf(edges)
  /\ conflicts = <<>>
  /\ cyc_step = 0
  /\ IdleRun /\ IdleShared /\ IdleCreate /\ IdleSan /\ IdleAux

DetectCircular ==
  /\ cyc_step = 0
  /\ conflicts' = conflicts \o detect_circular_dependencies(projects, dependencies, set_order)
  /\ cyc_step' = 1
  /\ UNCHANGED <<auxVars, projects, dependencies, set_order, runVars, sharedVars, createVars, sanVars>>

NextCycle ==
  DetectCircular

SpecCycle ==
  InitCycle /\ [][NextCycle]_vars

\* ---------------------- machine: the detectors over manifest records
MaxRecords ==
  3

\* the projects that carry manifests, in the dict order of self.projects
ManifestProjects ==
  <<"A", "B", "C">>

DepNames ==
  {"react", "lodash"}

\* DependencyInfo.version: None (requirements line without a version) or ""
\* both fail `if dep.version`
NoVersion ==
  ""

Versions ==
  {NoVersion, "17", "18"}

\* keys of a dict in insertion order: first occurrences of the sequence
RECURSIVE KeysInOrder(_)
KeysInOrder(seq) ==
  IF seq = <<>> THEN <<>>
  ELSE LET rest == KeysInOrder(SubSeq(seq, 1, Len(seq) - 1))
           k    == seq[Len(seq)]
       IN IF k \in Range(rest) THEN rest ELSE Append(rest, k)

\* `for project_name, deps in self.dependency_details.items(): for dep in deps`
RECURSIVE FlatDetails(_, _)
FlatDetails(projs, details) ==
  IF projs = <<>> THEN <<>>
  ELSE [i \in 1..Len(details[Head(projs)]) |->
          [project |-> Head(projs),
           name    |-> details[Head(projs)][i].name,
           version |-> details[Head(projs)][i].version]]
       \o FlatDetails(Tail(projs), details)

\* dependency_versions[dep.name][project_name] = dep.version: a later record
\* of the same project overwrites the earlier one
VersionOf(flat, name, project) ==
  LET hits == SelectSeq(flat, LAMBDA r : r.name = name /\ r.project = project)
  IN hits[Len(hits)].version

VersionConflict(dep_name, versions) ==
  [conflict_type |-> "version_mismatch", source_project |-> "multiple",
   target_project |-> dep_name, severity |-> "high", description |-> versions]

\* _detect_version_conflicts (952-978)
detect_version_conflicts(projs, details) ==
  LET flat  == SelectSeq(FlatDetails(projs, details), LAMBDA r : r.version # NoVersion)
      names == KeysInOrder([i \in 1..Len(flat) |-> flat[i].name])
      versions(n) ==
        LET ps == KeysInOrder([i \in 1..Len(SelectSeq(flat, LAMBDA r : r.name = n)) |->
                                 SelectSeq(flat, LAMBDA r : r.name = n)[i].project])
        IN [i \in 1..Len(ps) |-> <<ps[i], VersionOf(flat, n, ps[i])>>]
      differ(n) == Cardinality({versions(n)[i][2] : i \in 1..Len(versions(n))}) > 1
      hit == SelectSeq(names, differ)
  IN [i \in 1..Len(hit) |-> VersionConflict(hit[i], versions(hit[i]))]

SharedConflict(dep_name, users) ==
  [conflict_type |-> "shared_dependency", source_project |-> "shared",
   target_project |-> dep_name, severity |-> "medium", description |-> users]

\* a plausible slip: only the records that carry a version are counted
CountsAsReferenceVersioned(r) ==
  r.version # NoVersion

\* `for dep in deps: shared_deps[dep.name].add(project_name)`: every record
CountsAsReference(r) ==
  TRUE

\* _detect_shared_dependencies (1076-1100); order is the iteration order
\* of the sets of project names, which ', '.join(projects) writes out
detect_shared_dependencies(projs, details, order) ==
  LET flat  == SelectSeq(FlatDetails(projs, details), CountsAsReference)
      names == KeysInOrder([i \in 1..Len(flat) |-> flat[i].name])
      users(n) == {flat[i].project : i \in {j \in 1..Len(flat) : flat[j].name = n}}
      hit == SelectSeq(names, LAMBDA n : Cardinality(users(n)) > 1)
  IN [i \in 1..Len(hit) |->
        SharedConflict(hit[i], SelectSeq(order, LAMBDA q : q \in users(hit[i])))]

MissingConflict(project_name, dep) ==
  [conflict_type |-> "missing_dependency", source_project |-> project_name,
   target_project |-> dep, severity |-> "critical"]

\* a plausible slip: the test for a known project left out
IsInternalDependencyAny(dep, project_name, projs) ==
  dep # project_name

\* `if dep in self.projects and dep != project_name`
IsInternalDependency(dep, project_name, projs) ==
  dep \in Range(projs) /\ dep # project_name

\* _detect_missing_dependencies (980-1000); project.dependencies is
\* list(set(...)), iterated in the set's order
RECURSIVE detect_missing_dependencies(_, _, _, _)
detect_missing_dependencies(projs, all, deps, order) ==
  IF projs = <<>> THEN <<>>
  ELSE LET project_name == Head(projs)
           listed == SelectSeq(order \o <<External>>, LAMBDA d : d \in deps[project_name])
           hits   == SelectSeq(listed, LAMBDA d : IsInternalDependency(d, project_name, all))
       IN [i \in 1..Len(hits) |-> MissingConflict(project_name, hits[i])]
          \o detect_missing_dependencies(Tail(projs), all, deps, order)

ManifestRecords ==
  {[project |-> p, name |-> n, version |-> v] :
     p \in Range(ManifestProjects), n \in DepNames, v \in Versions}

InitManifest ==
  /\ projects = ManifestProjects
  /\ dependencies = [p \in Range(ManifestProjects) |-> {}]
  /\ set_order = <<>>
  /\ conflicts = <<>>
  /\ cyc_step = 0
  /\ \E recs \in SeqsUpTo(ManifestRecords, MaxRecords) :
       dependency_details =
         [p \in Range(ManifestProjects) |->
            LET own == SelectSeq(recs, LAMBDA r : r.project = p)
            IN [i \in 1..Len(own) |-> [name |-> own[i].name, version |-> own[i].version]]]
  /\ ran = <<>>
  /\ conflicts_again = <<>>
  /\ IdleRun /\ IdleShared /\ IdleCreate /\ IdleSan /\ IdleDetect /\ IdleMigrate /\ IdleLate

DetectVersionConflicts ==
  /\ dependency_details # <<>>
  /\ ran = <<>>
  /\ conflicts' = conflicts \o detect_version_conflicts(projects, dependency_details)
  /\ ran' = Append(ran, "version")
  /\ UNCHANGED <<dependency_details, conflicts_again, projects, dependencies, set_order,
                 cyc_step, runVars, sharedVars, createVars, sanVars, detVars, migVars,
                 lateVars>>

DetectSharedDependencies ==
  /\ dependency_details # <<>>
  /\ ran = <<"version">>
  /\ \E order \in Perms(Range(projects)) :
       conflicts' = conflicts \o
         detect_shared_dependencies(projects, dependency_details, order)
  /\ ran' = Append(ran, "shared")
  /\ UNCHANGED <<dependency_details, conflicts_again, projects, dependencies, set_order,
                 cyc_step, runVars, sharedVars, createVars, sanVars, detVars, migVars,
                 lateVars>>

\* the same two detectors in a second run of the program over the same
\* records; string hashing is seeded per process, so the sets of project
\* names may iterate in another order than in the first run
DetectAgain ==
  /\ ran = <<"version", "shared">>
  /\ \E order \in Perms(Range(projects)) :
       conflicts_again' =
         detect_version_conflicts(projects, dependency_details)
           \o detect_shared_dependencies(projects, dependency_details, order)
  /\ ran' = Append(ran, "again")
  /\ UNCHANGED <<dependency_details, conflicts, projects, dependencies, set_order,
                 cyc_step, runVars, sharedVars, createVars, sanVars, detVars, migVars,
                 lateVars>>

NextManifest ==
  \/ DetectVersionConflicts
  \/ DetectSharedDependencies
  \/ DetectAgain

SpecManifest ==
  InitManifest /\ [][NextManifest]_vars

DetectMissingDependencies ==
  /\ dependency_details = <<>>
  /\ projects # <<>>
  /\ ran = <<>>
  /\ conflicts' = conflicts \o
       detect_missing_dependencies(projects, projects, dependencies, set_order)
  /\ ran' = Append(ran, "missing")
  /\ UNCHANGED <<dependency_details, conflicts_again, projects, dependencies, set_order,
                 cyc_step, runVars, sharedVars, createVars, sanVars, detVars, migVars,
                 lateVars>>

NextMissing ==
  DetectMissingDependencies

SpecMissing ==
  InitCycle /\ [][NextMissing]_vars

\* ------------------------------- machine: project and component detection
MaxFiles ==
  3

\* relative paths as sequences of segments.  No segment is a string prefix
\* of another one, so str.startswith on the joined paths is the prefix
\* relation on these sequences.
RepoPaths ==
  { <<"package.json">>, <<"go.mod">>, <<"tools", "go.mod">>,
    <<"apps", "web", "package.json">>, <<"apps", "web", "src", "index.js">>,
    <<"services", "web", "package.json">>, <<"libs", "ui", "index.js">>,
    <<"packages", "ui", "package.json">> }

\* the entries of project_indicators (652-682) that RepoPaths uses
project_indicators ==
  ("package.json" :> "nodejs") @@ ("go.mod" :> "go")

\* os.path.dirname on a relative path; "" for a file at the root
dirname(file_path) ==
  SubSeq(file_path, 1, Len(file_path) - 1)

startswith(file_path, dir_path) ==
  /\ Len(dir_path) <= Len(file_path)
  /\ SubSeq(file_path, 1, Len(dir_path)) = dir_path

\* os.path.splitext(config_file)[0]
splitext(config_file) ==
  CASE config_file = "package.json" -> "package"
    [] config_file = "go.mod"       -> "go"
    [] OTHER                        -> config_file

\* `file_name in project_indicators` (693): file_name is an element of
\* dir_files[dir_path], a whole relative path, and the table's keys hold no
\* separator, so only a file at the root can be a key
InIndicators(file_name) ==
  Len(file_name) = 1 /\ file_name[1] \in DOMAIN project_indicators

\* _extract_project_name (712-719)
extract_project_name(dir_path, config_file) ==
  IF dir_path = <<>> THEN splitext(config_file[Len(config_file)])
  ELSE dir_path[Len(dir_path)]

HasName(infos, name) ==
  \E i \in 1..Len(infos) : infos[i].name = name

ProjectInfo(name, path, type) ==
  [name |-> name, path |-> path, type |-> type]

\* the loop over dir_files.items() (691-707); dirs in insertion order
RECURSIVE marker_projects(_, _, _)
marker_projects(dirs, all, projs) ==
  IF dirs = <<>> THEN projs
  ELSE LET dir_path == Head(dirs)
           files    == SelectSeq(all, LAMBDA f : dirname(f) = dir_path)
           marked   == SelectSeq(files, InIndicators)
       IN IF marked = <<>>
          THEN marker_projects(Tail(dirs), all, projs)
          ELSE LET file_name    == Head(marked)
                   project_name == extract_project_name(dir_path, file_name)
               IN marker_projects(Tail(dirs), all,
                    IF HasName(projs, project_name) THEN projs
                    ELSE Append(projs, ProjectInfo(project_name, dir_path,
                                  project_indicators[file_name[Len(file_name)]])))

\* position in app_patterns (724-735) of the pattern that a directory
\* segment, followed by "/", satisfies
app_patterns ==
  ("apps" :> 1) @@ ("services" :> 2) @@ ("packages" :> 6)

\* position in common_patterns (774-785)
common_patterns ==
  ("libs" :> 3) @@ ("packages" :> 9)

\* the loop `for pattern in patterns: match = re.search(pattern, file_path)`:
\* the first pattern of the list that matches anywhere, its leftmost
\* match, group(1) = the segment after the keyword; <<>> for no match
FirstMatch(file_path, patterns) ==
  LET at(k) == {i \in 1..(Len(file_path) - 1) :
                  file_path[i] \in DOMAIN patterns /\ patterns[file_path[i]] = k}
      ks    == {patterns[file_path[i]] :
                  i \in {j \in 1..(Len(file_path) - 1) : file_path[j] \in DOMAIN patterns}}
  IN IF ks = {} THEN <<>>
     ELSE LET k == CHOOSE x \in ks : \A y \in ks : x <= y
              i == CHOOSE x \in at(k) : \A y \in at(k) : x <= y
          IN <<file_path[i + 1]>>

SourceFiles ==
  {"index.js"}

ConfigFiles ==
  {"package.json"}

\* _is_substantial_project (758-767)
is_substantial_project(dir_path, all) ==
  LET project_files == SelectSeq(all, LAMBDA f : startswith(f, dir_path))
      source_files  == SelectSeq(project_files, LAMBDA f : f[Len(f)] \in SourceFiles)
  IN \/ Len(source_files) > 3
     \/ \E i \in 1..Len(project_files) :
          project_files[i][Len(project_files[i])] \in ConfigFiles

\* _detect_by_directory_structure (721-756)
RECURSIVE detect_by_directory_structure(_, _, _)
detect_by_directory_structure(files, all, projs) ==
  IF files = <<>> THEN projs
  ELSE LET file_path == Head(files)
           match     == FirstMatch(file_path, app_patterns)
       IN detect_by_directory_structure(Tail(files), all,
            IF match = <<>> \/ HasName(projs, match[1]) THEN projs
            ELSE IF is_substantial_project(dirname(file_path), all)
            THEN Append(projs, ProjectInfo(match[1], dirname(file_path), "app"))
            ELSE projs)

\* _detect_projects (644-710)
detect_projects(all) ==
  detect_by_directory_structure(all, all,
    marker_projects(KeysInOrder([i \in 1..Len(all) |-> dirname(all[i])]), all, <<>>))

CommonComponent(name, path) ==
  [name |-> name, path |-> path]

\* _detect_common_components (769-804)
RECURSIVE detect_common_components(_, _, _)
detect_common_components(files, all, comps) ==
  IF files = <<>> THEN comps
  ELSE LET file_path == Head(files)
           match     == FirstMatch(file_path, common_patterns)
       IN detect_common_components(Tail(files), all,
            IF match = <<>> \/ HasName(comps, match[1]) THEN comps
            ELSE Append(comps, CommonComponent(match[1], dirname(file_path))))

InitDetect ==
  /\ all_files \in {fs \in SeqsUpTo(RepoPaths, MaxFiles) : Injective(fs)}
  /\ detected = <<>>
  /\ common_components = <<>>
  /\ det_step = 0
  /\ IdleRun /\ IdleShared /\ IdleCreate /\ IdleSan /\ IdleCycle /\ IdleDeps /\ IdleMigrate /\ IdleLate

DetectProjects ==
  /\ det_step = 0
  /\ detected' = detect_projects(all_files)
  /\ det_step' = 1
  /\ UNCHANGED <<all_files, common_components, depVars, cycVars,
                 runVars, sharedVars, createVars, sanVars, migVars, lateVars>>

DetectCommonComponents ==
  /\ det_step = 1
  /\ common_components' = detect_common_components(all_files, all_files, <<>>)
  /\ det_step' = 2
  /\ UNCHANGED <<all_files, detected, depVars, cycVars,
                 runVars, sharedVars, createVars, sanVars, migVars, lateVars>>

NextDetect ==
  \/ DetectProjects
  \/ DetectCommonComponents

SpecDetect ==
  InitDetect /\ [][NextDetect]_vars

\* ------------------------------------ machine: _transform_package_json
\* dicts are functions over their keys
EmptyDict ==
  [k \in {} |-> ""]

Put(dict, key, value) ==
  [k \in DOMAIN dict \cup {key} |-> IF k = key THEN value ELSE dict[k]]

Pop(dict, key) ==
  [k \in DOMAIN dict \ {key} |-> dict[k]]

\* a plausible slip: only a trailing ".git" taken off
ReplaceDotGitSuffix(url) ==
  IF url # <<>> /\ url[Len(url)] = ".git" THEN SubSeq(url, 1, Len(url) - 1) ELSE url

\* str.replace('.git', ''): every occurrence goes; a URL is a sequence of
\* pieces in which ".git" is a piece of its own wherever it occurs
ReplaceDotGit(url) ==
  SelectSeq(url, LAMBDA piece : piece # ".git")

\* `pkg.get(key) or default` for string-valued and dict-valued keys
TruthyString(dict, key) ==
  key \in DOMAIN dict /\ dict[key] # ""

TruthyDict(dict, key) ==
  key \in DOMAIN dict /\ DOMAIN dict[key] # {}

DefaultTestScript ==
  "echo \"No tests specified\" && exit 0"

\* a plausible slip: the workspaces clean-up left out
StripWorkspacesKeep(pkg) ==
  pkg

\* `if 'workspaces' in pkg: pkg.pop('workspaces', None)`
StripWorkspaces(pkg) ==
  IF "workspaces" \in DOMAIN pkg THEN Pop(pkg, "workspaces") ELSE pkg

\* _transform_package_json (1448-1498) on a dict; the result is built on
\* copy.deepcopy(original)
transform_package_json(orig, repo_name, remote_url, is_library) ==
  LET p1 == Put(orig, "name", IF TruthyString(orig, "name") THEN orig["name"] ELSE repo_name)
      p2 == IF "version" \in DOMAIN p1 THEN p1 ELSE Put(p1, "version", "1.0.0")
      repo_meta == [type |-> "git", url |-> remote_url]
      p3 == Put(p2, "repository",
                IF TruthyDict(p2, "repository") THEN p2["repository"] ELSE repo_meta)
      p4 == Put(p3, "homepage",
                IF "homepage" \in DOMAIN p3 /\ p3["homepage"] # <<>>
                THEN p3["homepage"] ELSE ReplaceDotGit(remote_url))
      p5 == IF ~is_library /\ "private" \notin DOMAIN p4 THEN Put(p4, "private", FALSE) ELSE p4
      s0 == IF TruthyDict(p5, "scripts") THEN p5["scripts"] ELSE EmptyDict
      s1 == IF "test" \in DOMAIN s0 THEN s0 ELSE Put(s0, "test", DefaultTestScript)
      ts == \/ ("files" \in DOMAIN p5 /\ "tsconfig.json" \in Range(p5["files"]))
            \/ TruthyString(p5, "types")
      s2 == IF "build" \in DOMAIN s1 THEN s1
            ELSE Put(s1, "build", IF ts THEN "tsc -p ." ELSE "echo \"No build step\"")
      p6 == Put(p5, "scripts", s2)
  IN StripWorkspaces(p6)

\* the caller's dict after the call: pkg is copy.deepcopy(original), so
\* the writes to pkg do not reach it
InputAfterCall(orig, pkg) ==
  orig

OldRepository ==
  [type |-> "git", url |-> <<"https://example.com/", "custom", ".git">>]

OldHomepage ==
  <<"https://example.com/", "custom">>

\* per key: the values an input manifest may carry; "absent" = key missing
ManifestChoices ==
  [name       : {"absent", "", "custom"},
   version    : {"absent", "0.9.0"},
   repository : {"absent", "empty", "old"},
   homepage   : {"absent", "empty", "old"},
   private    : {"absent", "true"},
   scripts    : {"absent", "empty", "test", "build"},
   workspaces : {"absent", "packages"},
   types      : {"absent", "index.d.ts"},
   files      : {"absent", "tsconfig"},
   license    : {"absent", "MIT"}]

ManifestValue(key, choice) ==
  CASE key = "repository" -> IF choice = "empty" THEN EmptyDict ELSE OldRepository
    [] key = "homepage"   -> IF choice = "empty" THEN <<>> ELSE OldHomepage
    [] key = "private"    -> TRUE
    [] key = "scripts"    -> IF choice = "empty" THEN EmptyDict
                             ELSE IF choice = "test" THEN [test |-> "jest"]
                             ELSE [build |-> "make"]
    [] key = "workspaces" -> <<"packages/*">>
    [] key = "files"      -> <<"dist", "tsconfig.json">>
    [] OTHER              -> choice

Manifest(choices) ==
  [k \in {f \in DOMAIN choices : choices[f] # "absent"} |-> ManifestValue(k, choices[k])]

RepoUrls ==
  { <<"https://github.com/org/", "api-app", ".git">>,
    <<"git@gitlab.com:org/", "api-app", ".git">>,
    <<"https://dev.azure.com/org/proj/_git/", "api-app">>,
    <<"https://github.com/org/", "my", ".git", "hub.io", ".git">> }

InitMigrate ==
  /\ \E choices \in ManifestChoices : original = Manifest(choices)
  /\ args \in [repo_name : {"api-app"}, repo_url : RepoUrls, is_library : BOOLEAN]
  /\ migrated = <<>>
  /\ mig_step = 0
  /\ IdleRun /\ IdleShared /\ IdleCreate /\ IdleSan /\ IdleCycle /\ IdleDeps /\ IdleDetect /\ IdleLate

TransformPackageJson ==
  /\ mig_step = 0
  /\ args # <<>>
  /\ LET pkg == transform_package_json(original, args.repo_name, args.repo_url,
                                        args.is_library)
     IN migrated' = [pkg |-> pkg, input |-> InputAfterCall(original, pkg)]
  /\ mig_step' = 1
  /\ UNCHANGED <<original, args, depVars, detVars, cycVars,
                 runVars, sharedVars, createVars, sanVars, lateVars>>

NextMigrate ==
  TransformPackageJson

SpecMigrate ==
  InitMigrate /\ [][NextMigrate]_vars

\* ------------------------------ machine: _rate_limit_guard and the calls
\* it precedes.  One step is one iteration of the attempt loop of
\* _create_repo_github, or the single POST of another adapter.
MaxGuardSteps ==
  2

\* rate_limit_min_remaining of RepoSplitterConfig
RateLimitMinRemaining ==
  50

\* the reading of a get_rate_limit request that raised
NoReading ==
  [ok |-> FALSE, remaining |-> 0, reset |-> 0]

\* what self.github.get_rate_limit().core answers at time now: remaining
\* and reset of the GitHub account, or no reading when the request raises
GuardReadings(now) ==
  {NoReading} \cup [ok : {TRUE},
                    remaining : {RateLimitMinRemaining, RateLimitMinRemaining + 1},
                    reset : {now, now + 2}]

\* the quota the selected provider really has left at time now
ProviderQuotas(now) ==
  [ok : {TRUE}, remaining : {0, RateLimitMinRemaining + 1}, reset : {now + 2}]

Max(a, b) ==
  IF a > b THEN a ELSE b

\* _rate_limit_guard 1546-1553: the seconds of its one time.sleep, 0 when
\* it does not sleep (quota above the floor, or the request raised)
GuardWait(reading, now) ==
  IF reading.ok /\ reading.remaining <= RateLimitMinRemaining
  THEN Max(reading.reset - now, 0) + 1
  ELSE 0

\* one entry of the timed traffic
Traffic(kind, op, at, seen, quota, sleeps) ==
  [kind |-> kind, op |-> op, at |-> at, seen |-> seen, quota |-> quota, sleeps |-> sleeps]

\* self._rate_limit_guard() at time now followed by the remote requests
\* reqs (pairs <<kind, op>>): the guard asks GitHub, whatever the provider
\* is, sleeps at most once, and the requests follow
GuardThen(now, reading, quota, reqs) ==
  LET wait == GuardWait(reading, now)
  IN <<Traffic("guard", "rate_limit_guard", now, reading, quota,
               IF wait > 0 THEN 1 ELSE 0)>>
     \o [k \in 1..Len(reqs) |->
           Traffic(reqs[k][1], reqs[k][2], now + wait, reading, quota, 0)]

EndOf(traffic, now) ==
  IF traffic = <<>> THEN now ELSE traffic[Len(traffic)].at

\* the quota of the selected provider as the guard's reading relates to
\* it: self.github is the GitHub client, so under provider github a
\* reading that came back is that quota
QuotasFor(provider, reading, now) ==
  IF provider = "github" /\ reading.ok THEN {reading} ELSE ProviderQuotas(now)

InitGuard ==
  /\ config \in {[DefaultConfig EXCEPT !.provider = p, !.azure_project = "proj"] :
                   p \in Providers}
  /\ clock = 0
  /\ guarded = <<>>
  /\ guard_steps = 0
  /\ created_repos = <<>>
  /\ remote = {}
  /\ IdleRun /\ IdleCreate /\ IdleSan /\ IdleCycle /\ IdleDeps /\ IdleDetect /\ IdleMigrate
  /\ IdlePublish /\ IdleBreaker /\ IdleRetry /\ IdleNaming

\* one iteration of `for attempt in range(1, 4)` (1654-1697): the guard
\* and get_repo; unless the repository exists, the guard and the
\* organization path; if that raises, the guard and the user path; if that
\* raises too, the handler's sleep
GithubAttemptStep ==
  /\ config.provider = "github"
  /\ guard_steps < MaxGuardSteps
  /\ \E o \in {"exists", "org_created", "user_created", "api_error"} :
     \E r1 \in GuardReadings(clock) : \E q1 \in QuotasFor("github", r1, clock) :
       LET g1 == GuardThen(clock, r1, q1, <<<<"read", "get_repo">>>>)
           t1 == EndOf(g1, clock)
       IN IF o = "exists"
          THEN guarded' = g1 /\ clock' = t1
          ELSE
            \E r2 \in GuardReadings(t1) : \E q2 \in QuotasFor("github", r2, t1) :
              LET g2 == GuardThen(t1, r2, q2, <<<<"read", "get_organization">>,
                                                <<"mutating", "org.create_repo">>>>)
                  t2 == EndOf(g2, t1)
              IN IF o = "org_created"
                 THEN guarded' = g1 \o g2 /\ clock' = t2
                 ELSE
                   \E r3 \in GuardReadings(t2) : \E q3 \in QuotasFor("github", r3, t2) :
                     LET g3 == GuardThen(t2, r3, q3, <<<<"read", "get_user">>,
                                                       <<"mutating", "user.create_repo">>>>)
                         t3 == EndOf(g3, t2)
                     IN /\ guarded' = g1 \o g2 \o g3
                        /\ clock' = IF o = "user_created" THEN t3
                                    ELSE t3 + Min(Pow2(guard_steps + 1), BackoffCap)
  /\ guard_steps' = guard_steps + 1
  /\ UNCHANGED <<runVars, sharedVars, createVars, sanVars, cycVars, depVars, detVars, migVars,
                 pubVars, cbVars, retryVars, nameVars>>

\* the try block of _create_repo_gitlab (1724-1726), _create_repo_bitbucket
\* (1765-1767) and _create_repo_azure (1821-1824)
HttpCreateStep ==
  /\ config.provider # "github"
  /\ guard_steps < MaxGuardSteps
  /\ \E r \in GuardReadings(clock), q \in ProviderQuotas(clock) :
       LET g == GuardThen(clock, r, q, <<<<"mutating", "requests.post">>>>)
       IN /\ guarded' = g
          /\ clock' = EndOf(g, clock)
  /\ guard_steps' = guard_steps + 1
  /\ UNCHANGED <<runVars, sharedVars, createVars, sanVars, cycVars, depVars, detVars, migVars,
                 pubVars, cbVars, retryVars, nameVars>>

NextGuard ==
  \/ GithubAttemptStep
  \/ HttpCreateStep

SpecGuard ==
  InitGuard /\ [][NextGuard]_vars

\* ------------------------------ machine: the publish steps of a unit
MaxCommits ==
  2

Commits ==
  {"c1", "c2"}

UnitKinds ==
  {"project", "component", "branch"}

\* default_branch of RepoSplitterConfig
DefaultBranch ==
  "main"

GitRemoteRemove ==
  <<"git", "remote", "remove", "origin">>

GitRemoteAdd(url) ==
  <<"git", "remote", "add", "origin", url>>

GitBranchM ==
  <<"git", "branch", "-M", DefaultBranch>>

\* the push of lines 1891, 1946 and 1997
GitPush ==
  <<"git", "push", "-u", "origin", DefaultBranch>>

\* the commands after the extraction, in the order the function runs them:
\* extract_project_to_repo 1878-1891 and extract_common_component_to_repo
\* 1933-1946 rename the branch between remote add and push,
\* extract_branch_to_repo 1985-1997 renames it first
PublishCommands(kind, url) ==
  IF kind = "branch"
  THEN <<GitBranchM, GitRemoteRemove, GitRemoteAdd(url), GitPush>>
  ELSE <<GitRemoteRemove, GitRemoteAdd(url), GitBranchM, GitPush>>

IsPrefix(s, t) ==
  Len(s) <= Len(t) /\ SubSeq(t, 1, Len(s)) = s

\* what git does with a push of branch local onto a remote branch that
\* holds target: a push without --force is accepted only as a fast-forward
push_result(cmd, target, local) ==
  IF "--force" \in Range(cmd) \/ "-f" \in Range(cmd) \/ IsPrefix(target, local)
  THEN [ok |-> TRUE, target |-> local]
  ELSE [ok |-> FALSE, target |-> target]

InitPublish ==
  /\ pub_kind \in UnitKinds
  /\ target_branch \in SeqsUpTo(Commits, MaxCommits)
  /\ local_branch \in SeqsUpTo(Commits, MaxCommits) \ {<<>>}
  /\ git_log = <<>>
  /\ pub_done = FALSE
  /\ repo_url \in {<<"https://github.com/", "acme", "/", "a", "-", "a", "p", "p", ".git">>}
  /\ cli = DefaultConfig
  /\ inputs = <<>>
  /\ pc = "idle"
  /\ idx = 0
  /\ status = <<>>
  /\ ops = <<>>
  /\ report = FALSE
  /\ gate = "none"
  /\ error = NoError
  /\ IdleShared /\ IdleCreate /\ IdleSan /\ IdleCycle
  /\ IdleDeps /\ IdleDetect /\ IdleMigrate /\ IdleGuard /\ IdleBreaker /\ IdleRetry /\ IdleNaming

\* the tail of the three extract_*_to_repo functions, live: every command
\* runs with check=True, the first one that fails raises
PublishUnit ==
  /\ ~pub_done
  /\ LET cmds == PublishCommands(pub_kind, repo_url)
         res  == push_result(cmds[Len(cmds)], target_branch, local_branch)
     IN /\ git_log' = cmds
        /\ target_branch' = res.target
        /\ error' = IF res.ok THEN NoError ELSE [kind |-> "GitCommandFailed", count |-> 0]
  /\ pub_done' = TRUE
  /\ UNCHANGED <<cli, inputs, pc, idx, repo_url, status, ops, report, gate,
                 sharedVars, createVars, sanVars, cycVars, depVars, detVars, migVars, guardVars,
                 cbVars, retryVars, nameVars, pub_kind, local_branch>>

NextPublish ==
  PublishUnit

SpecPublish ==
  InitPublish /\ [][NextPublish]_vars

\* ------------------------------------------- machine: CircuitBreaker
MaxThreshold ==
  2

MaxTime ==
  4

\* CircuitBreaker.__init__ (155-160)
NewBreaker ==
  [state |-> "closed", failure_count |-> 0, last_failure_time |-> 0]

\* a plausible slip: the timeout counted as elapsed at exactly `timeout`
TimeoutElapsedInclusive(b, cfg, now) ==
  now - b.last_failure_time >= cfg.timeout

\* time.time() - self.last_failure_time > self.timeout (165)
TimeoutElapsed(b, cfg, now) ==
  now - b.last_failure_time > cfg.timeout

\* record_failure (179-185)
record_failure(b, cfg, now) ==
  LET n == b.failure_count + 1
  IN [state |-> IF n >= cfg.failure_threshold THEN "open" ELSE b.state,
      failure_count |-> n,
      last_failure_time |-> now]

\* reset (187-191)
reset(b) ==
  [state |-> "closed", failure_count |-> 0, last_failure_time |-> 0]

\* call (162-177) at time now of a function that returns (outcome "ok")
\* or raises the exception named by outcome: the breaker afterwards,
\* whether the function was invoked, and the exception raised ("" for none)
cb_call(b, cfg, now, outcome) ==
  IF b.state = "open" /\ ~TimeoutElapsed(b, cfg, now)
  THEN [breaker |-> b, invoked |-> FALSE, raised |-> "CircuitBreakerOpen"]
  ELSE LET entered == IF b.state = "open" THEN [b EXCEPT !.state = "half-open"] ELSE b
       IN IF outcome = "ok"
          THEN [breaker |-> IF entered.state = "half-open" THEN reset(entered) ELSE entered,
                invoked |-> TRUE, raised |-> ""]
          ELSE [breaker |-> record_failure(entered, cfg, now),
                invoked |-> TRUE, raised |-> outcome]

NoCall ==
  [before |-> NewBreaker, at |-> 0, outcome |-> "none", invoked |-> FALSE, raised |-> ""]

InitBreaker ==
  /\ breaker_cfg \in [failure_threshold : 1..MaxThreshold, timeout : {0, 2}]
  /\ breaker = NewBreaker
  /\ cb_now = 0
  /\ last_call = NoCall
  /\ IdleRun /\ IdleShared /\ IdleCreate /\ IdleSan /\ IdleCycle
  /\ IdleDeps /\ IdleDetect /\ IdleMigrate /\ IdleGuard /\ IdlePublish /\ IdleRetry /\ IdleNaming

BreakerCall ==
  /\ \E outcome \in {"ok", "ValueError"} :
       LET r == cb_call(breaker, breaker_cfg, cb_now, outcome)
       IN /\ breaker' = r.breaker
          /\ last_call' = [before |-> breaker, at |-> cb_now, outcome |-> outcome,
                           invoked |-> r.invoked, raised |-> r.raised]
  /\ UNCHANGED <<runVars, sharedVars, createVars, sanVars, cycVars, depVars, detVars, migVars,
                 guardVars, pubVars, retryVars, nameVars, breaker_cfg, cb_now>>

\* time passes between two calls
Tick ==
  /\ cb_now < MaxTime
  /\ cb_now' = cb_now + 1
  /\ UNCHANGED <<runVars, sharedVars, createVars, sanVars, cycVars, depVars, detVars, migVars,
                 guardVars, pubVars, retryVars, nameVars, breaker_cfg, breaker, last_call>>

NextBreaker ==
  \/ BreakerCall
  \/ Tick

SpecBreaker ==
  InitBreaker /\ [][NextBreaker]_vars

\* ------------------------------- machine: ErrorHandler.retry_with_backoff
MaxRetries ==
  2

\* CircuitBreaker() of get_circuit_breaker (205): the defaults of line 155
DefaultFailureThreshold ==
  5

DefaultTimeout ==
  60

DefaultBreakerCfg ==
  [failure_threshold |-> DefaultFailureThreshold, timeout |-> DefaultTimeout]

RECURSIVE TwoTo(_)
TwoTo(k) ==
  IF k = 0 THEN 1 ELSE 2 * TwoTo(k - 1)

\* the exception classes the wrapped function raises in the model;
\* NetworkError and CircuitBreakerOpen are subclasses of MonoAgentError
MonoAgentErrors ==
  {"MonoAgentError", "NetworkError", "CircuitBreakerOpen"}

\* isinstance(e, exceptions) of `except exceptions as e` (238)
IsListed(raised, exceptions) ==
  \/ raised \in exceptions
  \/ raised \in MonoAgentErrors /\ "MonoAgentError" \in exceptions

\* _enhance_error (259-276): a MonoAgentError is returned as it is, any
\* other exception is wrapped in a MonoAgentError whose context is that of
\* the wrapper; the class raised and the operation of its context
enhance_error(raised) ==
  CASE raised = "NetworkError"       -> [class |-> "NetworkError", operation |-> "network"]
    [] raised = "CircuitBreakerOpen" -> [class |-> "CircuitBreakerOpen", operation |-> "func"]
    [] OTHER                         -> [class |-> "MonoAgentError", operation |-> "func"]

\* _update_error_stats (298-312): total_errors of the error's operation
update_error_stats(stats, err) ==
  [stats EXCEPT ![err.operation] = @ + 1]

\* a plausible slip: the exponent counted from 1
RetryDelayFromOne(cfg, attempt) ==
  Min(cfg.backoff_factor * TwoTo(attempt + 1), cfg.max_backoff)

\* min(backoff_factor * (2 ** attempt), max_backoff) (247)
RetryDelay(cfg, attempt) ==
  Min(cfg.backoff_factor * TwoTo(attempt), cfg.max_backoff)

\* the loop `for attempt in range(max_retries + 1)` (229-254) from
\* iteration attempt on; trace holds what each iteration so far raised
RECURSIVE retry_loop(_, _, _, _, _, _, _, _)
retry_loop(cfg, script, attempt, b, now, invocations, waits, trace) ==
  LET o    == script[attempt + 1]
      call == IF cfg.circuit_breaker
              THEN cb_call(b, DefaultBreakerCfg, now, o)
              ELSE [breaker |-> b, invoked |-> TRUE, raised |-> IF o = "ok" THEN "" ELSE o]
      n    == invocations + (IF call.invoked THEN 1 ELSE 0)
      tr   == Append(trace, call.raised)
      end(outcome, class, operation) ==
        [outcome |-> outcome, class |-> class, operation |-> operation,
         invocations |-> n, waits |-> waits, trace |-> tr, breaker |-> call.breaker]
  IN IF call.raised = ""
     THEN end("returned", "", "")
     ELSE IF ~IsListed(call.raised, cfg.exceptions)
     THEN end("propagated", call.raised, "")
     ELSE IF attempt = cfg.max_retries
     THEN end("raised", enhance_error(call.raised).class, enhance_error(call.raised).operation)
     ELSE retry_loop(cfg, script, attempt + 1, call.breaker, now + RetryDelay(cfg, attempt),
                     n, Append(waits, RetryDelay(cfg, attempt)), tr)

FuncOutcomes ==
  {"ok", "ValueError", "NetworkError", "KeyError"}

NoRetryOut ==
  [outcome |-> "none", class |-> "", operation |-> "", invocations |-> 0,
   waits |-> <<>>, trace |-> <<>>, breaker |-> NewBreaker]

\* the states the breaker of the wrapped function can be in when the
\* wrapper is called: new, one failure short of the threshold, open
BreakersBefore ==
  {NewBreaker,
   [state |-> "closed", failure_count |-> DefaultFailureThreshold - 1, last_failure_time |-> 0],
   [state |-> "open", failure_count |-> DefaultFailureThreshold, last_failure_time |-> 0]}

InitRetry ==
  /\ retry_cfg \in [max_retries : 0..MaxRetries, backoff_factor : {1, 2},
                    max_backoff : {3, DefaultTimeout}, circuit_breaker : BOOLEAN,
                    exceptions : {{"ValueError"}, {"ValueError", "MonoAgentError"}}]
  /\ retry_script \in [1..(retry_cfg.max_retries + 1) -> FuncOutcomes]
  /\ breaker \in (IF retry_cfg.circuit_breaker THEN BreakersBefore ELSE {NewBreaker})
  /\ breaker_cfg = DefaultBreakerCfg
  /\ cb_now = 0
  /\ last_call = NoCall
  /\ retry_out = NoRetryOut
  /\ error_stats = [op \in {"func", "network"} |-> 0]
  /\ IdleRun /\ IdleShared /\ IdleCreate /\ IdleSan /\ IdleCycle
  /\ IdleDeps /\ IdleDetect /\ IdleMigrate /\ IdleGuard /\ IdlePublish /\ IdleNaming

\* one call of the wrapper (220-254)
RetryCall ==
  /\ retry_out.outcome = "none"
  /\ LET r == retry_loop(retry_cfg, retry_script, 0, breaker, cb_now, 0, <<>>, <<>>)
     IN /\ retry_out' = r
        /\ breaker' = r.breaker
        /\ error_stats' = IF r.outcome = "raised"
                          THEN update_error_stats(error_stats, r)
                          ELSE error_stats
        /\ cb_now' = cb_now + (IF r.waits = <<>> THEN 0
                               ELSE LET S[k \in 0..Len(r.waits)] ==
                                          IF k = 0 THEN 0 ELSE S[k - 1] + r.waits[k]
                                    IN S[Len(r.waits)])
  /\ UNCHANGED <<runVars, sharedVars, createVars, sanVars, cycVars, depVars, detVars, migVars,
                 guardVars, pubVars, nameVars, breaker_cfg, last_call, retry_cfg, retry_script>>

NextRetry ==
  RetryCall

SpecRetry ==
  InitRetry /\ [][NextRetry]_vars

\* ----------------------------------------- machine: split_repositories
\* repo_name_template_app / repo_name_template_lib defaults
TemplateApp(name) ==
  name \o <<"-", "a", "p", "p">>

TemplateLib(name) ==
  name \o <<"-", "l", "i", "b">>

\* ---------------- machine: the names and directories the unit loops use
MaxUnits ==
  2

\* directory and branch names of the monorepo, as character strings
SegmentNames ==
  {<<"w">>, <<"B">>, <<"b">>}

\* the PROJECTS entries of project mode: a/w, s/w, w, B, b
ProjectPaths ==
  {<<<<"a">>, <<"w">>>>, <<<<"s">>, <<"w">>>>, <<<<"w">>>>, <<<<"B">>>>, <<<<"b">>>>}

\* os.path.basename
basename(path) ==
  path[Len(path)]

\* os.path.join(self.temp_dir, f"project_{project.name}") and the like
\* (1843, 1898, 1953)
ScratchPath(kind, name) ==
  <<"temp_dir", kind \o "_">> \o name

\* ProjectInfo(name, path), CommonComponent(name, path) or a branch
Unit(kind, name, path) ==
  [kind |-> kind, name |-> name, path |-> path]

\* the units the loops of one mode go through (2026-2049, 2060-2090,
\* 2100-2113): detected projects and components are dict entries, keyed by
\* name; project mode names a unit after the basename of its path
NamingInputs ==
  LET names(S) == {x \in SeqsUpTo(S, MaxUnits) : Injective(x)}
      units(kind, ns) == [i \in 1..Len(ns) |-> Unit(kind, ns[i], <<ns[i]>>)]
  IN {[mode |-> "auto", units |-> units("project", ps) \o units("component", cs)] :
        ps \in names(SegmentNames), cs \in {c \in names(SegmentNames) : Len(c) <= 1}}
     \cup {[mode |-> "project",
            units |-> [i \in 1..Len(ps) |-> Unit("project", basename(ps[i]), ps[i])]] :
             ps \in names(ProjectPaths)}
     \cup {[mode |-> "branch", units |-> units("branch", bs)] : bs \in names(SegmentNames)}

\* repo_name and the scratch directory of one unit
NamesOfUnit(unit) ==
  [repo_name |-> sanitize_repo_name(IF unit.kind = "component" THEN TemplateLib(unit.name)
                                    ELSE TemplateApp(unit.name)),
   scratch   |-> ScratchPath(unit.kind, unit.name)]

InitNaming ==
  /\ naming_in \in NamingInputs
  /\ naming_out = <<>>
  /\ IdleRun /\ IdleShared /\ IdleCreate /\ IdleSan /\ IdleCycle
  /\ IdleDeps /\ IdleDetect /\ IdleMigrate
  /\ IdleGuard /\ IdlePublish /\ IdleBreaker /\ IdleRetry

\* the unit loops of split_repositories, as far as names go
AssignNames ==
  /\ naming_out = <<>>
  /\ naming_in.units # <<>>
  /\ naming_out' = [i \in 1..Len(naming_in.units) |-> NamesOfUnit(naming_in.units[i])]
  /\ UNCHANGED <<runVars, sharedVars, createVars, sanVars, cycVars, depVars, detVars, migVars,
                 guardVars, pubVars, cbVars, retryVars, naming_in>>

NextNaming ==
  AssignNames

SpecNaming ==
  InitNaming /\ [][NextNaming]_vars

UnitNames ==
  {<<"a">>, <<"B">>, <<" ">>}

Severities ==
  {<<>>, <<"high", "medium">>, <<"critical", "high", "critical">>}

Modes ==
  {"auto", "project", "branch"}

\* load_config (1365-1435): a fresh RepoSplitterConfig that takes dry_run
\* and analyze_only from the constructor's config, the mode from the CLI
\* override, and every field it does not pass from the dataclass defaults
load_config(c, inp) ==
  [DefaultConfig EXCEPT !.dry_run = c.dry_run,
                        !.analyze_only = c.analyze_only,
                        !.mode = IF c.mode # "" THEN c.mode ELSE "auto",
                        !.org = c.org]

\* the unit list of each mode, in processing order
Units(cfg, inp) ==
  LET P(kind) == [i \in 1..Len(inp.project_names) |->
                    [kind |-> kind, name |-> inp.project_names[i]]]
      C(n)    == [i \in 1..n |-> [kind |-> "component", name |-> inp.component_names[i]]]
  IN CASE cfg.mode = "auto"    -> P("project") \o C(Len(inp.component_names))
       [] cfg.mode = "project" -> P("project") \o C(Min(1, Len(inp.component_names)))
       [] cfg.mode = "branch"  -> P("branch")
       [] OTHER -> <<>>

RepoNameOf(unit) ==
  sanitize_repo_name(IF unit.kind = "component" THEN TemplateLib(unit.name)
                     ELSE TemplateApp(unit.name))

Op(op, unit, arg, live) ==
  [op |-> op, unit |-> unit, arg |-> arg, live |-> live]

\* the git commands of extract_project_to_repo and
\* extract_common_component_to_repo (1847-1892, 1902-1947), in order
PathSteps ==
  <<"git_clone", "check_path", "git_filter_repo", "git_remote_remove",
    "git_remote_add", "git_branch_M", "git_push">>

\* those of extract_branch_to_repo (1955-1998)
BranchSteps ==
  <<"git_clone", "check_ref", "git_checkout", "git_branch_M",
    "git_remote_remove", "git_remote_add", "git_push">>

StepsOf(unit) ==
  IF unit.kind = "branch" THEN BranchSteps ELSE PathSteps

\* the steps whose failure is a logged error and a plain return
QuietSteps ==
  {"check_path", "check_ref"}

\* the operations of one extraction that runs its first n steps
ExtractOps(unit, i, url, n) ==
  [k \in 1..n |-> Op(StepsOf(unit)[k], i, url, TRUE)]

CriticalCount(sev) ==
  Cardinality({i \in 1..Len(sev) : sev[i] = "critical"})

\* a plausible slip: the extraction started whatever create returned
ShouldExtractAlways(url) ==
  TRUE

\* `if repo_url:` of the unit loops
ShouldExtract(url) ==
  url # Null

\* a plausible slip: the report written only once the gate has passed
ReportWrittenByAnalysisNever(sev) ==
  FALSE

\* analyze_repository_structure ends with _generate_analysis_report,
\* which writes monorepo_analysis.json whatever the conflicts are
ReportWrittenByAnalysis(sev) ==
  TRUE

CliConfigs ==
  {[DefaultConfig EXCEPT !.dry_run = d, !.analyze_only = a, !.force = f,
                         !.mode = m, !.provider = p] :
     d \in BOOLEAN, a \in BOOLEAN, f \in BOOLEAN,
     m \in Modes \cup {"mono"}, p \in {"github", "gitlab"}}

RunInputs ==
  {[env_ok |-> e, severities |-> sev, project_names |-> ps, component_names |-> cs] :
     e \in BOOLEAN, sev \in Severities,
     ps \in {x \in SeqsUpTo(UnitNames, MaxProjects) : Injective(x)},
     cs \in {x \in SeqsUpTo(UnitNames, MaxComponents) : Injective(x)}}

Init ==
  /\ cli \in CliConfigs
  /\ inputs \in RunInputs
  /\ config = cli
  /\ pc = "start"
  /\ idx = 0
  /\ repo_url = Null
  /\ status = <<>>
  /\ ops = <<>>
  /\ created_repos = <<>>
  /\ remote \in {{}, {<<"a", "-", "a", "p", "p">>}}
  /\ report = FALSE
  /\ gate = "none"
  /\ error = NoError
  /\ IdleCreate /\ IdleSan /\ IdleCycle /\ IdleAux

Fail(kind, count) ==
  /\ pc' = "error"
  /\ error' = [kind |-> kind, count |-> count]

\* split_repositories 2008-2012
LoadConfig ==
  /\ pc = "start"
  /\ IF ~inputs.env_ok
     THEN /\ Fail("ConfigError", 0)
          /\ UNCHANGED <<config, status>>
     ELSE LET c == load_config(cli, inputs)
          IN /\ config' = c
             /\ IF c.mode \notin Modes
                THEN /\ Fail("ConfigError", 0)
                     /\ UNCHANGED status
                ELSE /\ pc' = "clone"
                     /\ status' = [i \in 1..Len(Units(c, inputs)) |-> "Pending"]
                     /\ UNCHANGED error
  /\ UNCHANGED <<auxVars, cli, inputs, idx, repo_url, ops, created_repos, remote, report, gate,
                 createVars, sanVars, cycVars>>

\* clone_source_repo (1579-1594): mkdtemp and git clone --mirror, in
\* every mode and also under dry-run
CloneSource ==
  /\ pc = "clone"
  /\ \E ok \in BOOLEAN :
       /\ ops' = ops \o <<Op("mkdtemp", 0, Null, TRUE), Op("git_clone_mirror", 0, Null, TRUE)>>
       /\ IF ok
          THEN /\ pc' = IF config.mode = "auto" THEN "analyze" ELSE "manual"
               /\ UNCHANGED error
          ELSE Fail("GitCommandFailed", 0)
  /\ UNCHANGED <<auxVars, cli, inputs, config, idx, repo_url, status, created_repos, remote, report,
                 gate, createVars, sanVars, cycVars>>

\* analyze_monorepo 1603-1607: the analyzer runs and writes its report
AnalyzeStructure ==
  /\ pc = "analyze"
  /\ report' = ReportWrittenByAnalysis(inputs.severities)
  /\ ops' = Append(ops, Op("write_report", 0, Null, TRUE))
  /\ pc' = "gate"
  /\ UNCHANGED <<auxVars, cli, inputs, config, idx, repo_url, status, created_repos, remote, gate,
                 error, createVars, sanVars, cycVars>>

\* analyze_monorepo 1609-1620: the critical-conflict test
Gate ==
  /\ pc = "gate"
  /\ LET n == CriticalCount(inputs.severities)
     IN IF n > 0 /\ ~config.dry_run /\ ~config.force
        THEN /\ gate' = "blocked"
             /\ Fail("ConflictBlocked", n)
        ELSE /\ gate' = "passed"
             /\ pc' = "analyzed"
             /\ UNCHANGED error
  /\ UNCHANGED <<auxVars, cli, inputs, config, idx, repo_url, status, ops, created_repos, remote,
                 report, createVars, sanVars, cycVars>>

\* split_repositories 2018-2020: analyze_only returns before the loops
\* and before the summary
AfterAnalysis ==
  /\ pc = "analyzed"
  /\ IF config.analyze_only
     THEN pc' = "returned" /\ UNCHANGED idx
     ELSE pc' = "units" /\ idx' = 1
  /\ UNCHANGED <<auxVars, cli, inputs, config, repo_url, status, ops, created_repos, remote, report,
                 gate, error, createVars, sanVars, cycVars>>

\* split_repositories 2054-2056 and 2095-2097: the manual list must not
\* be empty
ManualUnits ==
  /\ pc = "manual"
  /\ IF inputs.project_names = <<>>
     THEN Fail("ConfigError", 0) /\ UNCHANGED idx
     ELSE pc' = "units" /\ idx' = 1 /\ UNCHANGED error
  /\ UNCHANGED <<auxVars, cli, inputs, config, repo_url, status, ops, created_repos, remote, report,
                 gate, createVars, sanVars, cycVars>>

\* one iteration of a unit loop up to `if repo_url:` (2026-2035 and the
\* like in the other modes)
CreateRepo ==
  /\ pc = "units"
  /\ idx <= Len(Units(config, inputs))
  /\ LET unit == Units(config, inputs)[idx]
         name == RepoNameOf(unit)
     IN IF /\ config.mode \in {"project", "branch"}
           /\ unit.kind # "component"
           /\ Strip(unit.name, Whitespace) = <<>>
        THEN /\ status' = [status EXCEPT ![idx] = "Skipped"]
             /\ idx' = idx + 1
             /\ UNCHANGED <<pc, repo_url, ops, created_repos, remote>>
        ELSE \E env \in CreateEnvs(config, name \in remote) :
               LET r == create_repo_provider_agnostic(config, name, env)
               IN /\ ops' = Append(ops, Op("create_repository", idx, r.url, r.calls # <<>>))
                  /\ created_repos' = IF r.created THEN Append(created_repos, name)
                                      ELSE created_repos
                  /\ remote' = IF r.remote_created THEN remote \cup {name} ELSE remote
                  /\ repo_url' = r.url
                  /\ IF ShouldExtract(r.url)
                     THEN /\ status' = [status EXCEPT ![idx] = "RepoCreated"]
                          /\ pc' = "extract"
                          /\ UNCHANGED idx
                     ELSE /\ status' = [status EXCEPT ![idx] = "Failed"]
                          /\ idx' = idx + 1
                          /\ UNCHANGED pc
  /\ UNCHANGED <<auxVars, cli, inputs, config, report, gate, error, createVars, sanVars, cycVars>>

\* extract_project_to_repo, extract_common_component_to_repo,
\* extract_branch_to_repo: nothing but the log line under dry-run; live,
\* the steps run until one fails; a failing git command raises
\* CalledProcessError, which nothing catches before the outer handler of
\* split_repositories; a missing path or branch is logged and returned
\* from.  Whenever the extraction returns, the loop logs
\* "Repository URL: {repo_url}" (2033, 2046, 2072, 2087, 2110)
ExtractUnit ==
  /\ pc = "extract"
  /\ LET unit  == Units(config, inputs)[idx]
         steps == StepsOf(unit)
         said  == Op("extract", idx, repo_url, FALSE)
         back  == Op("log_repository_url", idx, repo_url, FALSE)
     IN IF config.dry_run
        THEN /\ ops' = Append(Append(ops, said), back)
             /\ status' = [status EXCEPT ![idx] = "Simulated"]
             /\ pc' = "units"
             /\ idx' = idx + 1
             /\ UNCHANGED error
        ELSE \E failed \in 0..Len(steps) :
               IF failed = 0
               THEN /\ ops' = Append(Append(ops, said) \o ExtractOps(unit, idx, repo_url, Len(steps)),
                                   back)
                    /\ status' = [status EXCEPT ![idx] = "Published"]
                    /\ pc' = "units"
                    /\ idx' = idx + 1
                    /\ UNCHANGED error
               ELSE /\ ops' = Append(ops, said) \o ExtractOps(unit, idx, repo_url, failed)
                                \o (IF steps[failed] \in QuietSteps THEN <<back>> ELSE <<>>)
                    /\ status' = [status EXCEPT ![idx] = "Failed"]
                    /\ IF steps[failed] \in QuietSteps
                       THEN /\ pc' = "units"
                            /\ idx' = idx + 1
                            /\ UNCHANGED error
                       ELSE /\ Fail("GitCommandFailed", 0)
                            /\ UNCHANGED idx
  /\ UNCHANGED <<auxVars, cli, inputs, config, repo_url, created_repos, remote, report, gate,
                 createVars, sanVars, cycVars>>

\* split_repositories 2115-2124
Summary ==
  /\ pc = "units"
  /\ idx > Len(Units(config, inputs))
  /\ ops' = Append(ops, Op("summary", 0, <<Len(created_repos)>>, FALSE))
  /\ pc' = "done"
  /\ UNCHANGED <<auxVars, cli, inputs, config, idx, repo_url, status, created_repos, remote, report,
                 gate, error, createVars, sanVars, cycVars>>

Next ==
  \/ LoadConfig
  \/ CloneSource
  \/ AnalyzeStructure
  \/ Gate
  \/ AfterAnalysis
  \/ ManualUnits
  \/ CreateRepo
  \/ ExtractUnit
  \/ Summary

Spec ==
  Init /\ [][Next]_vars

\* ================================================================ claims

\* ---- helpers of the claims about the run
UnitOpNames ==
  {"create_repository", "extract"} \cup Range(PathSteps) \cup Range(BranchSteps)

ExtractionOpNames ==
  UnitOpNames \ {"create_repository"}

Ended ==
  pc \in {"done", "returned", "error"}

\* C1 (as claimed): in auto mode, live or dry-run, once the analysis has
\* produced at least one critical conflict and the operator did not set
\* force, no create, extraction or push operation happens for any unit, the
\* run does not go past the gate, and it ends with the blocking error that
\* carries the number of critical conflicts.
C1_CriticalBlocksSplit ==
  ( /\ config.mode = "auto"
    /\ report
    /\ CriticalCount(inputs.severities) >= 1
    /\ ~cli.force )
  => /\ \A k \in 1..Len(ops) : ops[k].op \notin UnitOpNames
     /\ pc \notin {"analyzed", "units", "extract", "done", "returned"}
     /\ pc = "error" =>
          error = [kind |-> "ConflictBlocked", count |-> CriticalCount(inputs.severities)]

\* C2 (as claimed): in a live auto-mode run started with force set, the
\* flag is still set when the gate is evaluated, the gate does not block,
\* and a run that reaches its summary has processed every unit.
C2_ForceOverridesGate ==
  (cli.force /\ cli.mode = "auto" /\ ~cli.dry_run) =>
     /\ pc = "gate" => config.force
     /\ gate # "blocked"
     /\ pc = "done" => \A i \in 1..Len(status) : status[i] # "Pending"

\* C3 (as claimed): a unit that failed, at whatever step, is the only one
\* that fails because of it: the run still reaches its summary and no unit
\* of the list is left unprocessed.
C3_FailureStaysInUnit ==
  (Ended /\ \E i \in 1..Len(status) : status[i] = "Failed") =>
     /\ pc = "done"
     /\ \A i \in 1..Len(status) : status[i] # "Pending"

\* C4: per unit the steps come in the order create, extraction, publish:
\* every extraction operation of a unit follows a create of that unit that
\* returned a non-null URL and works on that URL, a push follows the
\* unit's history step and remote change, and a unit whose create returned
\* null has no other operation.
C4_StepOrder ==
  \A k \in 1..Len(ops) :
    LET o == ops[k]
    IN /\ o.op \in ExtractionOpNames =>
            \E j \in 1..(k - 1) :
              /\ ops[j].op = "create_repository"
              /\ ops[j].unit = o.unit
              /\ ops[j].arg # Null
              /\ ops[j].arg = o.arg
       /\ o.op = "git_push" =>
            \E h, a \in 1..(k - 1) :
              /\ h < a
              /\ ops[h].unit = o.unit
              /\ ops[h].op \in {"git_filter_repo", "git_checkout"}
              /\ ops[a].unit = o.unit
              /\ ops[a].op = "git_remote_add"
              /\ ops[a].arg = o.arg
       /\ (o.op = "create_repository" /\ o.arg = Null) =>
            \A j \in 1..Len(ops) : ops[j].unit = o.unit => j = k

C4_Witness ==
  /\ pc = "done"
  /\ \E k \in 1..Len(ops) : ops[k].op = "git_push" /\ ops[k].unit = 2
  /\ \E k \in 1..Len(ops) : ops[k].op = "create_repository" /\ ops[k].arg = Null

\* C6 (as claimed): a dry run differs from the live run only in that it
\* touches neither the remote nor the local disk, and it takes the same
\* abort-or-proceed decision at the conflict gate as the live run would.
C6_DryRunOnlySimulates ==
  cli.dry_run =>
     /\ \A k \in 1..Len(ops) : ~ops[k].live
     /\ ~report
     /\ gate = "passed" => (CriticalCount(inputs.severities) = 0 \/ config.force)

\* C8 (as claimed): in every mode in which a split can start, the analysis
\* report has been written before the gate is evaluated and before any
\* unit is processed.
C8_ReportInEveryMode ==
  (gate # "none" \/ pc \in {"units", "extract", "done"}) => report

\* C8 (amended): in auto mode the analysis report is written before the
\* conflict gate is evaluated, so it exists when the gate blocks the split
\* and when any unit is processed; in project and branch mode no analysis
\* runs and no gate is evaluated.
C8_ReportBeforeGate ==
  /\ (pc = "gate" \/ gate # "none") => report
  /\ (config.mode = "auto" /\ pc \in {"analyzed", "units", "extract", "done", "returned"})
       => report
  /\ (pc # "start" /\ config.mode \in {"project", "branch"}) => (~report /\ gate = "none")

C8_Witness ==
  /\ gate = "blocked"
  /\ pc = "error"
  /\ report
  /\ error.count = 2

\* ---- helpers of the claims about the adapters
Occurrences(seq, x) ==
  Cardinality({i \in 1..Len(seq) : seq[i] = x})

\* C5 (as claimed): in live mode, for each adapter, when a name was freshly
\* created by one call and the remote answers the next call for the same
\* name with "already exists", both calls return a clone URL, the same one,
\* and the name is in the created-repository tally at most once.
C5_IdempotentCreate ==
  \A i \in 1..(Len(hist) - 1) :
    ( /\ ~config.dry_run
      /\ config.provider \in Providers
      /\ hist[i].name = hist[i + 1].name
      /\ hist[i].answer \in CreatedAnswers
      /\ hist[i + 1].answer = "exists" )
    => /\ hist[i].url # Null
       /\ hist[i + 1].url # Null
       /\ hist[i].url = hist[i + 1].url
       /\ Occurrences(created_repos, hist[i].name) <= 1

\* C7 (as claimed): under dry-run every one of the four adapters returns,
\* for any raw name, a non-null URL ending in "<sanitized name>.git",
\* issues no remote call and leaves the created-repository tally alone.
C7_DryRunUrlAllProviders ==
  (config.dry_run /\ config.provider \in Providers) =>
    /\ created_repos = <<>>
    /\ \A i \in 1..Len(hist) :
         /\ hist[i].url # Null
         /\ EndsWith(hist[i].url, sanitize_repo_name(hist[i].raw) \o <<".git">>)
         /\ hist[i].answer = "none"

\* C7 (amended): under dry-run no adapter issues a remote call or adds to
\* the created-repository tally; the GitHub, GitLab and Bitbucket adapters
\* return a non-null URL ending in "<sanitized name>.git"; the Azure adapter
\* returns a URL ending in "/_git/<sanitized name>" when azure_project is
\* set and null when it is not.
C7_DryRunUrl ==
  (config.dry_run /\ config.provider \in Providers) =>
    /\ created_repos = <<>>
    /\ remote = {}
    /\ calls = <<>>
    /\ \A i \in 1..Len(hist) :
         LET name == sanitize_repo_name(hist[i].raw)
         IN /\ hist[i].answer = "none"
            /\ config.provider # "azure" =>
                 /\ hist[i].url # Null
                 /\ EndsWith(hist[i].url, name \o <<".git">>)
            /\ (config.provider = "azure" /\ config.azure_project # "") =>
                 EndsWith(hist[i].url, <<"/_git/">> \o name)
            /\ (config.provider = "azure" /\ config.azure_project = "") =>
                 hist[i].url = Null

C7_Witness ==
  /\ config.dry_run
  /\ config.provider = "gitlab"
  /\ Len(hist) >= 1
  /\ hist[1].raw = <<"M", "y", " ", "S", "!", "!">>
  /\ EndsWith(hist[1].url, <<"m", "y", "-", "s", ".git">>)

\* C9: _sanitize_repo_name is total and idempotent: the result is never
\* empty, sanitizing the result gives the result again, and the empty
\* string, an all-whitespace string and a string of only '-', '.', '_'
\* give "repo".
C9_SanitizeIdempotentTotal ==
  /\ san_step >= 1 =>
       /\ Len(sanitized) >= 1
       /\ ( \/ Range(raw_name) \subseteq Whitespace
            \/ Range(raw_name) \subseteq TrimChars ) => sanitized = DefaultName
  /\ san_step = 2 => resanitized = sanitized

C9_Witness ==
  /\ san_step = 2
  /\ "!" \in Range(raw_name)
  /\ "B" \in Range(raw_name)
  /\ sanitized # DefaultName
  /\ sanitized # raw_name

\* ---- helpers of the claims about cycle detection
ProjectEdges ==
  {e \in ProjectNames \X ProjectNames : e[2] \in dependencies[e[1]]}

CycleEdges(cyc) ==
  {<<cyc[i], cyc[(i % Len(cyc)) + 1]>> : i \in 1..Len(cyc)}

\* the edges between projects are exactly those of one simple cycle of
\* length at least two
IsOneSimpleCycle ==
  \E k \in 2..MaxNodes :
    \E cyc \in [1..k -> ProjectNames] :
      Injective(cyc) /\ ProjectEdges = CycleEdges(cyc)

RECURSIVE ReachFrom(_, _)
ReachFrom(frontier, seen) ==
  LET next == {e[2] : e \in {x \in ProjectEdges : x[1] \in frontier}} \ seen
  IN IF next = {} THEN seen ELSE ReachFrom(next, seen \cup next)

IsAcyclic ==
  \A p \in ProjectNames : p \notin ReachFrom({p}, {})

CircularConflicts ==
  SelectSeq(conflicts, LAMBDA c : c.conflict_type = "circular_dependency")

\* C10: for a project graph that is one simple cycle of length >= 2, in
\* any iteration order, cycle detection yields exactly one
\* circular_dependency conflict, of severity critical; for an acyclic
\* project graph it yields none.
C10_SimpleCycleOnce ==
  cyc_step = 1 =>
    /\ IsOneSimpleCycle =>
         /\ Len(CircularConflicts) = 1
         /\ CircularConflicts[1].severity = "critical"
    /\ IsAcyclic => Len(CircularConflicts) = 0

C10_Witness ==
  /\ cyc_step = 1
  /\ IsOneSimpleCycle
  /\ Cardinality(ProjectEdges) = 3
  /\ Len(CircularConflicts) = 1
  /\ projects # set_order

NodeIndex(n) ==
  CHOOSE i \in 1..Len(NodeNames) : NodeNames[i] = n

\* the simple cycles of the project graph (self-dependencies included),
\* each written once, starting at its first project in NodeNames order
SimpleCycles ==
  {cyc \in UNION {[1..k -> ProjectNames] : k \in 1..MaxNodes} :
     /\ Injective(cyc)
     /\ \A i \in 2..Len(cyc) : NodeIndex(cyc[1]) < NodeIndex(cyc[i])
     /\ CycleEdges(cyc) \subseteq ProjectEdges}

CyclesNodeDisjoint ==
  \A c1, c2 \in SimpleCycles : c1 # c2 => Range(c1) \cap Range(c2) = {}

\* the conflict's cycle text path[cycle_start:] + [node] names this cycle
Describes(conflict, cyc) ==
  LET t == conflict.target_project
  IN /\ Len(t) >= 2
     /\ t[1] = t[Len(t)]
     /\ CycleEdges(SubSeq(t, 1, Len(t) - 1)) = CycleEdges(cyc)

\* C11: for a project graph whose cycles are pairwise node-disjoint, in
\* any iteration order and with any further projects depending on the
\* cycles' projects, the number of circular_dependency conflicts equals
\* the number of cycles and each cycle is described by exactly one conflict.
C11_EachCycleOnce ==
  (cyc_step = 1 /\ CyclesNodeDisjoint) =>
    /\ Len(CircularConflicts) = Cardinality(SimpleCycles)
    /\ \A cyc \in SimpleCycles :
         Cardinality({i \in 1..Len(CircularConflicts) :
                        Describes(CircularConflicts[i], cyc)}) = 1

ConflictsOfType(type) ==
  SelectSeq(conflicts, LAMBDA c : c.conflict_type = type)

RecordsNaming(n) ==
  {r \in ManifestRecords :
     /\ r.name = n
     /\ \E i \in 1..Len(dependency_details[r.project]) :
          /\ dependency_details[r.project][i].name = n
          /\ dependency_details[r.project][i].version = r.version}

VersionsSeen(n) ==
  {r.version : r \in RecordsNaming(n)} \ {NoVersion}

ProjectsNaming(n) ==
  {r.project : r \in RecordsNaming(n)}

ProjectsVersioning(n) ==
  {r.project : r \in {x \in RecordsNaming(n) : x.version # NoVersion}}

ConflictsNaming(type, n) ==
  {i \in 1..Len(ConflictsOfType(type)) : ConflictsOfType(type)[i].target_project = n}

\* C12: a dependency name that the manifest records of at least two
\* projects carry with a version, with at least two distinct non-null
\* versions among them, gets exactly one version_mismatch conflict, of
\* severity high; a name whose non-null versions are all equal, or that
\* one project only carries, gets none.
C12_VersionMismatchPerName ==
  "version" \in Range(ran) =>
    \A n \in DepNames :
      /\ (Cardinality(VersionsSeen(n)) >= 2 /\ Cardinality(ProjectsVersioning(n)) >= 2) =>
           /\ Cardinality(ConflictsNaming("version_mismatch", n)) = 1
           /\ \A i \in ConflictsNaming("version_mismatch", n) :
                ConflictsOfType("version_mismatch")[i].severity = "high"
      /\ (Cardinality(VersionsSeen(n)) <= 1 \/ Cardinality(ProjectsNaming(n)) <= 1) =>
           ConflictsNaming("version_mismatch", n) = {}

\* C14: a dependency name that the manifest records of more than one
\* project carry gets exactly one shared_dependency conflict, of severity
\* medium, listing all the projects that reference it; a name one project
\* only references gets none.
C14_SharedPerName ==
  "shared" \in Range(ran) =>
    \A n \in DepNames :
      /\ Cardinality(ProjectsNaming(n)) > 1 =>
           /\ Cardinality(ConflictsNaming("shared_dependency", n)) = 1
           /\ \A i \in ConflictsNaming("shared_dependency", n) :
                LET c == ConflictsOfType("shared_dependency")[i]
                IN /\ c.severity = "medium"
                   /\ Range(c.description) = ProjectsNaming(n)
                   /\ Len(c.description) = Cardinality(ProjectsNaming(n))
      /\ Cardinality(ProjectsNaming(n)) <= 1 =>
           ConflictsNaming("shared_dependency", n) = {}

C14_Witness ==
  /\ "shared" \in Range(ran)
  /\ Cardinality(ProjectsNaming("react")) = 3
  /\ VersionsSeen("react") = {}
  /\ Len(ConflictsOfType("shared_dependency")) = 1
  /\ ConflictsOfType("shared_dependency")[1].description = <<"C", "A", "B">>

MissingFor(p, q) ==
  {i \in 1..Len(ConflictsOfType("missing_dependency")) :
     /\ ConflictsOfType("missing_dependency")[i].source_project = p
     /\ ConflictsOfType("missing_dependency")[i].target_project = q}

\* C13 (as claimed): every pair (P, Q) of known projects where P's
\* dependency list contains Q's name, P itself included, gets exactly one
\* missing_dependency conflict with source P, target Q and severity
\* critical; no such conflict names a dependency that is no known project.
C13_MissingPerPair ==
  "missing" \in Range(ran) =>
    /\ \A p, q \in Range(projects) :
         q \in dependencies[p] =>
           /\ Cardinality(MissingFor(p, q)) = 1
           /\ \A i \in MissingFor(p, q) :
                ConflictsOfType("missing_dependency")[i].severity = "critical"
    /\ \A i \in 1..Len(ConflictsOfType("missing_dependency")) :
         ConflictsOfType("missing_dependency")[i].target_project \in Range(projects)

\* C13 (amended): every pair of two distinct known projects P, Q where P's
\* dependency list contains Q's name gets exactly one missing_dependency
\* conflict with source P, target Q and severity critical; a project's
\* dependency on its own name gets none, and no such conflict names a
\* dependency that is no known project.
C13_MissingPerDistinctPair ==
  "missing" \in Range(ran) =>
    /\ \A p, q \in Range(projects) :
         (p # q /\ q \in dependencies[p]) =>
           /\ Cardinality(MissingFor(p, q)) = 1
           /\ \A i \in MissingFor(p, q) :
                ConflictsOfType("missing_dependency")[i].severity = "critical"
    /\ \A i \in 1..Len(ConflictsOfType("missing_dependency")) :
         LET c == ConflictsOfType("missing_dependency")[i]
         IN /\ c.target_project \in Range(projects)
            /\ c.source_project # c.target_project
            /\ c.target_project \in dependencies[c.source_project]

C13_Witness ==
  /\ "missing" \in Range(ran)
  /\ dependencies["A"] = {"A", "B", External}
  /\ Len(ConflictsOfType("missing_dependency")) = 1
  /\ Cardinality(MissingFor("A", "B")) = 1

AsSet(seq) ==
  {seq[i] : i \in 1..Len(seq)}

\* C15: detection does not depend on the order of the file list: every
\* ordering of the same file set, the lexicographically sorted one among
\* them, yields the same project and component names and, per name, the
\* same path and kind as the ordering that was scanned.
C15_OrderIndependent ==
  det_step = 2 =>
    \A other \in Perms(Range(all_files)) :
      /\ AsSet(detect_projects(other)) = AsSet(detected)
      /\ AsSet(detect_common_components(other, other, <<>>)) = AsSet(common_components)

MarkerFiles(dir_path) ==
  SelectSeq(all_files, LAMBDA f : dirname(f) = dir_path /\ f[Len(f)] \in DOMAIN project_indicators)

MarkerDirs ==
  {dirname(all_files[i]) : i \in {j \in 1..Len(all_files) :
     all_files[j][Len(all_files[j])] \in DOMAIN project_indicators}}

\* C17: every directory, the root or a sub-directory, that directly holds a
\* marker file yields a project whose path is that directory, whose kind is
\* the tag of the first marker found there and whose name is the
\* directory's base name (at the root: the marker's name without
\* extension), unless a project of that name exists already.
C17_MarkerDirectories ==
  det_step >= 1 =>
    \A d \in MarkerDirs :
      LET marker == Head(MarkerFiles(d))
          kind   == project_indicators[marker[Len(marker)]]
          name   == IF d = <<>> THEN splitext(marker[Len(marker)]) ELSE d[Len(d)]
      IN \/ \E p \in AsSet(detected) : p.path = d /\ p.type = kind /\ p.name = name
         \/ \E p \in AsSet(detected) : p.name = name /\ p.path # d

\* C16: a second run of detection over the unchanged input yields the
\* identical conflict list: the same conflicts, with the same
\* descriptions, in the same order.
C16_RerunIdentical ==
  "again" \in Range(ran) => conflicts_again = conflicts

GovernedKeys ==
  {"name", "version", "repository", "homepage", "private", "scripts", "workspaces"}

RemotePage(url) ==
  IF url # <<>> /\ url[Len(url)] = ".git" THEN SubSeq(url, 1, Len(url) - 1) ELSE url

\* C19 (as claimed): whatever repository or homepage the input manifest
\* declares, the migrated manifest's repository carries the new remote URL
\* and its homepage points at the new remote.
C19_PointsAtNewRemote ==
  mig_step = 1 =>
    /\ migrated.pkg["repository"] = [type |-> "git", url |-> args.repo_url]
    /\ migrated.pkg["homepage"] = RemotePage(args.repo_url)

\* C19 (amended): a manifest that declares no repository, or an empty one,
\* gets repository {type: git, url: the new remote URL}; one that declares
\* no homepage, or an empty one, gets as homepage the new remote URL with
\* every occurrence of ".git" removed; a non-empty declared repository or
\* homepage is kept as it is.
C19_FillsMissingRemote ==
  mig_step = 1 =>
    /\ IF TruthyDict(original, "repository")
       THEN migrated.pkg["repository"] = original["repository"]
       ELSE migrated.pkg["repository"] = [type |-> "git", url |-> args.repo_url]
    /\ IF "homepage" \in DOMAIN original /\ original["homepage"] # <<>>
       THEN migrated.pkg["homepage"] = original["homepage"]
       ELSE migrated.pkg["homepage"] =
              SelectSeq(args.repo_url, LAMBDA piece : piece # ".git")

C19_Witness ==
  /\ mig_step = 1
  /\ "repository" \in DOMAIN original /\ DOMAIN original["repository"] = {}
  /\ "homepage" \notin DOMAIN original
  /\ args.repo_url = <<"https://github.com/org/", "my", ".git", "hub.io", ".git">>
  /\ migrated.pkg["repository"].url = args.repo_url
  /\ migrated.pkg["homepage"] = <<"https://github.com/org/", "my", "hub.io">>

AuthFailures ==
  {"unauthorized", "forbidden"}

\* C20: in live mode, for each provider adapter, a create attempt that the
\* remote answers with an authentication or authorization failure makes
\* the adapter return null after that single attempt, with no further
\* remote call for the name and no backoff wait.
C20_AuthFailureNoRetry ==
  \A i \in 1..Len(hist) :
    ( /\ ~config.dry_run
      /\ config.provider \in Providers
      /\ hist[i].first \in AuthFailures )
    => /\ hist[i].url = Null
       /\ hist[i].posts = 1
       /\ hist[i].waits = <<>>

\* the answers that are neither "already exists" nor an authentication
\* failure: a GithubException of another status, an HTTP status outside
\* 200/201/401/403/409, an exception raised by requests.post
TransientFailures ==
  {"api_error", "server_error", "exception"}

\* C21 (as claimed): in live mode, for each provider adapter, a create
\* attempt that fails with a transient error is followed by another
\* attempt; the waits between attempts are min(2^k, 8) for k = 1, 2, ...;
\* there are at most three attempts; a call whose last attempt succeeds
\* returns a clone URL, and a call whose last attempt fails returns null.
C21_TransientRetried ==
  \A i \in 1..Len(hist) :
    ( /\ ~config.dry_run
      /\ config.provider \in Providers
      /\ hist[i].first \in TransientFailures )
    => /\ hist[i].posts >= 2
       /\ hist[i].posts <= GithubAttempts
       /\ \A k \in 1..Len(hist[i].waits) :
            hist[i].waits[k] = Min(Pow2(k), BackoffCap)
       /\ hist[i].answer \in {"org_created", "user_created", "created_ssh",
                              "created_https", "exists"} => hist[i].url # Null
       /\ hist[i].answer \in TransientFailures => hist[i].url = Null

\* ---- helpers of the claims about one unit of a run
HasOp(i, name) ==
  \E k \in 1..Len(ops) : ops[k].unit = i /\ ops[k].op = name

\* the unit's path extraction stopped at the test of its declared path
PathMissing(i) ==
  /\ HasOp(i, "check_path")
  /\ ~HasOp(i, "git_filter_repo")
  /\ (idx > i \/ Ended)

\* what the loop tells its caller about a published unit: the
\* "Repository URL" line, no error raised, the name counted in the summary
ReportedAsSuccess(i) ==
  /\ HasOp(i, "log_repository_url")
  /\ error = NoError

\* C22 (as claimed): when a unit's declared path does not exist in the
\* mirrored tree, the unit's outcome is not reported as a success, nothing
\* is pushed for it, and the units after it are still processed.
C22_MissingPathFailsLoudly ==
  \A i \in 1..Len(status) :
    PathMissing(i) =>
      /\ ~ReportedAsSuccess(i)
      /\ ~HasOp(i, "git_push")
      /\ pc = "done" => \A j \in 1..Len(status) : status[j] # "Pending"

\* C23 (as claimed): with analyze_only set, in every mode, no
\* create-repository, extraction or push operation is performed for any unit.
C23_AnalyzeOnlyNoSplit ==
  cli.analyze_only => \A k \in 1..Len(ops) : ops[k].op \notin UnitOpNames

\* C24 (as claimed): whenever a create-repository call has been made, the
\* configuration it was dispatched on holds the provider, and the
\* provider-specific settings, that the operator's configuration selected.
C24_ProviderInForce ==
  (\E k \in 1..Len(ops) : ops[k].op = "create_repository") =>
     /\ config.provider = cli.provider
     /\ config.gitlab_host = cli.gitlab_host
     /\ config.provider_username = cli.provider_username
     /\ config.azure_project = cli.azure_project

\* C25 (as claimed): in live mode every remote create call follows a
\* rate-limit check with no other mutating call in between; the check
\* sleeps at most once; and when the check saw the remaining quota at or
\* below the floor, the call is issued only after the quota-reset time of
\* the selected provider.
C25_GuardBeforeCreate ==
  \A k \in 1..Len(guarded) :
    guarded[k].kind = "mutating" =>
      \E j \in 1..(k - 1) :
        /\ guarded[j].kind = "guard"
        /\ \A m \in (j + 1)..(k - 1) : guarded[m].kind = "read"
        /\ guarded[j].sleeps <= 1
        /\ (guarded[j].seen.ok /\ guarded[j].seen.remaining <= RateLimitMinRemaining)
             => guarded[k].at >= guarded[k].quota.reset

\* position of the first command of git_log that starts with the words
\* given, 0 when there is none
CommandAt(words) ==
  LET hits == {k \in 1..Len(git_log) : IsPrefix(words, git_log[k])}
  IN IF hits = {} THEN 0 ELSE CHOOSE k \in hits : \A h \in hits : k <= h

\* C26 (as claimed): for a published unit of any kind, the old origin is
\* removed, then the new URL is added as origin, then the default branch
\* is pushed; and the push replaces whatever the target branch of the new
\* repository already holds.
C26_PublishOrderForcePush ==
  pub_done =>
     /\ 0 < CommandAt(<<"git", "remote", "remove", "origin">>)
     /\ CommandAt(<<"git", "remote", "remove", "origin">>)
          < CommandAt(<<"git", "remote", "add", "origin", repo_url>>)
     /\ CommandAt(<<"git", "remote", "add", "origin", repo_url>>)
          < CommandAt(<<"git", "push">>)
     /\ git_log[CommandAt(<<"git", "push">>)][Len(git_log[CommandAt(<<"git", "push">>)])]
          = DefaultBranch
     /\ target_branch = local_branch
     /\ error = NoError

\* ---- helpers of the claims about retry_with_backoff
TotalErrors ==
  error_stats["func"] + error_stats["network"]

\* C27: a call of a function wrapped by retry_with_backoff(max_retries = n)
\* invokes it at most n+1 times; only an attempt that raised a listed
\* exception is followed by another one, so the first success is returned
\* and an exception outside the listed types propagates at once; when all
\* n+1 attempts raised a listed exception the wrapper raises a
\* MonoAgentError and the statistics gain exactly one error, and they gain
\* none otherwise; the wait before retry k (k = 0, 1, ...) is
\* min(backoff_factor * 2^k, max_backoff).
C27_RetryContract ==
  retry_out.outcome # "none" =>
    LET n     == retry_cfg.max_retries
        tr    == retry_out.trace
        ended == Len(tr)
        listed(k) == tr[k] # "" /\ IsListed(tr[k], retry_cfg.exceptions)
    IN /\ ended \in 1..(n + 1)
       /\ retry_out.invocations <= ended
       /\ ~retry_cfg.circuit_breaker => retry_out.invocations = ended
       /\ \A k \in 1..(ended - 1) : listed(k)
       /\ (retry_out.outcome = "returned") <=> (tr[ended] = "")
       /\ (retry_out.outcome = "propagated") <=> (tr[ended] # "" /\ ~listed(ended))
       /\ (retry_out.outcome = "raised") <=> (listed(ended) /\ ended = n + 1)
       /\ retry_out.outcome = "propagated" => retry_out.class = tr[ended]
       /\ retry_out.outcome = "raised" =>
            (retry_out.class \in MonoAgentErrors /\ TotalErrors = 1)
       /\ retry_out.outcome # "raised" => TotalErrors = 0
       /\ Len(retry_out.waits) = ended - 1
       /\ \A k \in 1..Len(retry_out.waits) :
            retry_out.waits[k] =
              Min(retry_cfg.backoff_factor * TwoTo(k - 1), retry_cfg.max_backoff)

C27_Witness ==
  /\ retry_out.outcome = "raised"
  /\ retry_cfg.max_retries = 2
  /\ retry_out.invocations = 3
  /\ retry_out.waits = <<2, 3>>
  /\ retry_out.class = "MonoAgentError"
  /\ error_stats["func"] = 1

\* C28: CircuitBreaker over any sequence of calls: a breaker that has
\* recorded failure_threshold failures is open, and a closed one has
\* recorded fewer; a call made while the breaker is open and no more than
\* timeout has passed since the last failure does not invoke the function,
\* raises CircuitBreakerOpen and leaves the breaker as it was; a call made
\* after the timeout invokes the function, and then a success leaves the
\* breaker closed with failure count 0 and a failure leaves it open.
C28_BreakerProtocol ==
  /\ breaker.state \in {"closed", "open"}
  /\ breaker.failure_count >= breaker_cfg.failure_threshold => breaker.state = "open"
  /\ breaker.state = "closed" => breaker.failure_count < breaker_cfg.failure_threshold
  /\ (last_call.outcome # "none" /\ last_call.before.state = "open") =>
       IF last_call.at - last_call.before.last_failure_time <= breaker_cfg.timeout
       THEN /\ ~last_call.invoked
            /\ last_call.raised = "CircuitBreakerOpen"
            /\ breaker = last_call.before
       ELSE /\ last_call.invoked
            /\ last_call.outcome = "ok" => (last_call.raised = "" /\ breaker = NewBreaker)
            /\ last_call.outcome # "ok" =>
                 /\ last_call.raised = last_call.outcome
                 /\ breaker.state = "open"
                 /\ breaker.failure_count = last_call.before.failure_count + 1
  /\ (last_call.outcome # "none" /\ last_call.before.state = "closed") => last_call.invoked

C28_Witness ==
  /\ breaker_cfg.failure_threshold = 2
  /\ breaker_cfg.timeout = 2
  /\ last_call.before.state = "open"
  /\ last_call.at - last_call.before.last_failure_time = 3
  /\ last_call.outcome = "ok"
  /\ breaker = NewBreaker

\* the names of the adapter calls that the remote answered with a fresh
\* creation, in call order
FreshlyCreated ==
  LET fresh == SelectSeq(hist, LAMBDA h : h.answer \in CreatedAnswers)
  IN [k \in 1..Len(fresh) |-> fresh[k].name]

\* C29 (as claimed): at every point the created-repository tally holds
\* exactly the sanitized names of the repositories whose creation the
\* provider reported as fresh, in creation order and without duplicates;
\* an already existing repository, a failed create and a create under
\* dry-run add nothing.
C29_TallyIsFreshCreations ==
  /\ created_repos = FreshlyCreated
  /\ Injective(created_repos)

\* C30 (as claimed): within one run two different units never get the
\* same sanitized repository name, nor the same scratch directory.
C30_UnitsKeepApart ==
  \A i, j \in 1..Len(naming_out) :
    naming_in.units[i] # naming_in.units[j] =>
      /\ naming_out[i].repo_name # naming_out[j].repo_name
      /\ naming_out[i].scratch # naming_out[j].scratch

====
